---------------------------- MODULE Spec2Model ----------------------------
(***************************************************************************)
(* A model of the music-theory engine of bass_assistant_v1.py: Chord       *)
(* (symbol parsing), Song (key detection) and BassCard (scale degree,      *)
(* chord tones, fretboard grid), and of the application object that drives *)
(* it: BassChordApp (analyze, display, save and load of the cards).        *)
(*                                                                         *)
(* A Python str is modelled as a sequence of one-character strings, so     *)
(* that splitting, matching, lower-casing, stripping and substring tests   *)
(* are computed and not assumed.  None is the one-element sequence None.   *)
(***************************************************************************)
EXTENDS Integers, Sequences, FiniteSets, TLC

VARIABLES
    pc,         \* position of the object under construction / the call
    chord,      \* a Chord object                  (src 69-100)
    song,       \* a Song object                   (src 102-138)
    detected,   \* the value detect_key returned   (src 113-138)
    card,       \* a BassCard object               (src 140-256)
    app,        \* the BassChordApp object         (src 265-288)
    file,       \* the document save_cards wrote   (src 932-933)
    events      \* the number of events the application has handled

vars == <<pc, chord, song, detected, card, app, file, events>>

-----------------------------------------------------------------------------
(* Python str primitives *)

None == <<"<None>">>

Unset == <<"<unset>">>

\* a YAML list read where a string is expected (it cannot be a dict key)
ListValue == <<"<list>">>

Whitespace == {" ", "\t", "\n"}

UpperLetters ==
    <<"A","B","C","D","E","F","G","H","I","J","K","L","M",
      "N","O","P","Q","R","S","T","U","V","W","X","Y","Z">>

LowerLetters ==
    <<"a","b","c","d","e","f","g","h","i","j","k","l","m",
      "n","o","p","q","r","s","t","u","v","w","x","y","z">>

\* str.lower() on one character
LowerChar(c) ==
    IF \E i \in DOMAIN UpperLetters : UpperLetters[i] = c
    THEN LowerLetters[CHOOSE i \in DOMAIN UpperLetters : UpperLetters[i] = c]
    ELSE c

\* str.lower()
Lower(s) == [i \in DOMAIN s |-> LowerChar(s[i])]

\* s[a:] for 0 <= a (Python slice, 0-based start)
SliceFrom(s, a) ==
    IF a >= Len(s) THEN <<>> ELSE SubSeq(s, a + 1, Len(s))

RECURSIVE LStrip(_)
LStrip(s) ==
    IF s # <<>> /\ Head(s) \in Whitespace THEN LStrip(Tail(s)) ELSE s

RECURSIVE RStrip(_)
RStrip(s) ==
    IF s # <<>> /\ s[Len(s)] \in Whitespace
    THEN RStrip(SubSeq(s, 1, Len(s) - 1))
    ELSE s

\* str.strip()
Strip(s) == RStrip(LStrip(s))

\* sub in s  (substring test; the empty string is in every string)
Contains(s, sub) ==
    \E i \in 1..(Len(s) - Len(sub) + 1) : SubSeq(s, i, i + Len(sub) - 1) = sub

\* index of the first occurrence of character c in s, 0 when absent
FirstIndex(s, c) ==
    IF \E i \in DOMAIN s : s[i] = c
    THEN CHOOSE i \in DOMAIN s : s[i] = c /\ \A j \in 1..(i - 1) : s[j] # c
    ELSE 0

\* s.split(c): every occurrence of c separates two parts
RECURSIVE Split(_, _)
Split(s, c) ==
    IF FirstIndex(s, c) = 0
    THEN <<s>>
    ELSE <<SubSeq(s, 1, FirstIndex(s, c) - 1)>>
         \o Split(SliceFrom(s, FirstIndex(s, c)), c)

\* re.match(r'^([A-G][#b]?)', s): group(1), or None when there is no match
RootLetters == {"A", "B", "C", "D", "E", "F", "G"}

Accidentals == {"#", "b"}

MatchRoot(s) ==
    IF s # <<>> /\ s[1] \in RootLetters
    THEN IF Len(s) >= 2 /\ s[2] \in Accidentals
         THEN SubSeq(s, 1, 2)
         ELSE SubSeq(s, 1, 1)
    ELSE None

-----------------------------------------------------------------------------
(* class Chord *)

\* Chord.__init__ up to the call of parse(): the fields before parsing
ChordFields(symbol, section) ==
    [symbol    |-> Strip(symbol),
     section   |-> section,
     root      |-> <<>>,
     bass_note |-> <<>>,
     suffix    |-> <<>>]

\* the two branches of "if '/' in self.symbol"
ChordPart(symbol) ==
    IF Contains(symbol, <<"/">>)
    THEN Strip(Split(symbol, "/")[1])
    ELSE symbol

\* mutant: the bass note taken after the last '/' (parts[-1])
ExplicitBassLast(symbol) ==
    IF Contains(symbol, <<"/">>)
    THEN Strip(Split(symbol, "/")[Len(Split(symbol, "/"))])
    ELSE None

ExplicitBass(symbol) ==
    IF Contains(symbol, <<"/">>)
    THEN Strip(Split(symbol, "/")[2])
    ELSE None

\* mutant: the fallback root lower-cased with the rest of the chord part
ParsedRootFallbackLower(chord_part) ==
    IF MatchRoot(chord_part) # None
    THEN MatchRoot(chord_part)
    ELSE IF chord_part # <<>> THEN Lower(SubSeq(chord_part, 1, 1)) ELSE <<>>

ParsedRoot(chord_part) ==
    IF MatchRoot(chord_part) # None
    THEN MatchRoot(chord_part)
    ELSE IF chord_part # <<>> THEN SubSeq(chord_part, 1, 1) ELSE <<>>

\* mutant: the suffix not lower-cased
ParsedSuffixKeepCase(chord_part) ==
    IF MatchRoot(chord_part) # None
    THEN Strip(SliceFrom(chord_part, Len(MatchRoot(chord_part))))
    ELSE IF Len(chord_part) > 1
         THEN Strip(SliceFrom(chord_part, 1))
         ELSE <<>>

ParsedSuffix(chord_part) ==
    IF MatchRoot(chord_part) # None
    THEN Strip(Lower(SliceFrom(chord_part, Len(MatchRoot(chord_part)))))
    ELSE IF Len(chord_part) > 1
         THEN Strip(Lower(SliceFrom(chord_part, 1)))
         ELSE <<>>

\* mutant: "if self.bass_note is None" in place of "if not self.bass_note"
ParsedBassNoneOnly(symbol, root) ==
    IF ExplicitBass(symbol) = None THEN root ELSE ExplicitBass(symbol)

ParsedBass(symbol, root) ==
    IF ExplicitBass(symbol) = None \/ ExplicitBass(symbol) = <<>>
    THEN root
    ELSE ExplicitBass(symbol)

\* Chord.parse(), as a function of the object's fields
parse(c) ==
    [c EXCEPT !.root      = ParsedRoot(ChordPart(c.symbol)),
              !.suffix    = ParsedSuffix(ChordPart(c.symbol)),
              !.bass_note = ParsedBass(c.symbol, ParsedRoot(ChordPart(c.symbol)))]

\* Chord(symbol, section)
Chord(symbol, section) == parse(ChordFields(symbol, section))

-----------------------------------------------------------------------------
(* class Song *)

\* roots = [chord.root for chord in self.chords if chord.root]
RECURSIVE Roots(_)
Roots(chords) ==
    IF chords = <<>> THEN <<>>
    ELSE IF Head(chords).root # <<>>
         THEN <<Head(chords).root>> \o Roots(Tail(chords))
         ELSE Roots(Tail(chords))

\* Counter(roots): the keys in insertion order (a dict keeps the order in which
\* its keys were first inserted) ...
RECURSIVE CounterKeys(_)
CounterKeys(roots) ==
    IF roots = <<>> THEN <<>>
    ELSE LET init == CounterKeys(SubSeq(roots, 1, Len(roots) - 1))
             last == roots[Len(roots)]
         IN  IF \E i \in DOMAIN init : init[i] = last
             THEN init
             ELSE Append(init, last)

\* ... and the count of each key
CounterCount(roots, r) == Cardinality({i \in DOMAIN roots : roots[i] = r})

\* mutant: the last of several maximal items wins
RECURSIVE MaxByCountLast(_, _, _)
MaxByCountLast(keys, roots, best) ==
    IF keys = <<>> THEN best
    ELSE IF CounterCount(roots, Head(keys)) >= CounterCount(roots, best)
         THEN MaxByCountLast(Tail(keys), roots, Head(keys))
         ELSE MaxByCountLast(Tail(keys), roots, best)

\* root_counts.most_common(1)[0][0]: heapq.nlargest(1, items, key=count) is
\* max(items, key=count), which keeps the first of several maximal items
RECURSIVE MaxByCount(_, _, _)
MaxByCount(keys, roots, best) ==
    IF keys = <<>> THEN best
    ELSE IF CounterCount(roots, Head(keys)) > CounterCount(roots, best)
         THEN MaxByCount(Tail(keys), roots, Head(keys))
         ELSE MaxByCount(Tail(keys), roots, best)

MostCommonRoot(roots) ==
    MaxByCount(Tail(CounterKeys(roots)), roots, Head(CounterKeys(roots)))

\* mutant: 'm' in chord.suffix and 'maj' not in chord.suffix
SuffixIsMinorNoDim(suffix) ==
    /\ Contains(suffix, <<"m">>)
    /\ ~Contains(suffix, <<"m", "a", "j">>)

\* 'm' in chord.suffix and 'maj' not in chord.suffix and 'dim' not in chord.suffix
SuffixIsMinor(suffix) ==
    /\ Contains(suffix, <<"m">>)
    /\ ~Contains(suffix, <<"m", "a", "j">>)
    /\ ~Contains(suffix, <<"d", "i", "m">>)

\* the loop "for chord in self.chords: if chord.root == most_common_root: ..."
RECURSIVE IsMinor(_, _)
IsMinor(chords, most_common_root) ==
    IF chords = <<>> THEN FALSE
    ELSE IF Head(chords).root = most_common_root /\ SuffixIsMinor(Head(chords).suffix)
         THEN TRUE
         ELSE IsMinor(Tail(chords), most_common_root)

\* mutant: only the empty list gets the default key; a list without roots
\* gets the (empty) root of its chords
detect_keyEmptyOnly(chords) ==
    IF chords = <<>> THEN <<"C">>
    ELSE IF Roots(chords) = <<>> THEN <<>>
    ELSE MostCommonRoot(Roots(chords))
         \o (IF IsMinor(chords, MostCommonRoot(Roots(chords))) THEN <<"m">> ELSE <<>>)

\* Song.detect_key()
detect_key(chords) ==
    IF chords = <<>> THEN <<"C">>
    ELSE IF Roots(chords) = <<>> THEN <<"C">>
    ELSE MostCommonRoot(Roots(chords))
         \o (IF IsMinor(chords, MostCommonRoot(Roots(chords))) THEN <<"m">> ELSE <<>>)

\* Song.add_chord(chord, section): the chord list after the call
add_chord(chords, token, section) ==
    IF Strip(token) # <<>> THEN Append(chords, Chord(token, section)) ELSE chords

-----------------------------------------------------------------------------
(* Note tables *)

NOTE_TO_PITCH ==
    (<<"C">> :> 0) @@ (<<"C", "#">> :> 1) @@ (<<"D", "b">> :> 1) @@ (<<"D">> :> 2)
    @@ (<<"D", "#">> :> 3) @@ (<<"E", "b">> :> 3) @@ (<<"E">> :> 4) @@ (<<"F">> :> 5)
    @@ (<<"F", "#">> :> 6) @@ (<<"G", "b">> :> 6) @@ (<<"G">> :> 7)
    @@ (<<"G", "#">> :> 8) @@ (<<"A", "b">> :> 8) @@ (<<"A">> :> 9)
    @@ (<<"A", "#">> :> 10) @@ (<<"B", "b">> :> 10) @@ (<<"B">> :> 11)

\* mutant: NOTE_TO_PITCH.get(name, 9)
NoteToPitchGetDefaultNine(name) ==
    IF name \in DOMAIN NOTE_TO_PITCH THEN NOTE_TO_PITCH[name] ELSE 9

\* NOTE_TO_PITCH.get(name, 0)
NoteToPitchGet(name) ==
    IF name \in DOMAIN NOTE_TO_PITCH THEN NOTE_TO_PITCH[name] ELSE 0

PITCH_TO_NOTE_SHARP ==
    [p \in 0..11 |->
        <<<<"C">>, <<"C", "#">>, <<"D">>, <<"D", "#">>, <<"E">>, <<"F">>,
          <<"F", "#">>, <<"G">>, <<"G", "#">>, <<"A">>, <<"A", "#">>, <<"B">>>>[p + 1]]

PITCH_TO_NOTE_FLAT ==
    [p \in 0..11 |->
        <<<<"C">>, <<"D", "b">>, <<"D">>, <<"E", "b">>, <<"E">>, <<"F">>,
          <<"G", "b">>, <<"G">>, <<"A", "b">>, <<"A">>, <<"B", "b">>, <<"B">>>>[p + 1]]

CHORD_FORMULAS ==
    (<<>> :> <<0, 4, 7>>)
    @@ (<<"m">> :> <<0, 3, 7>>)
    @@ (<<"7">> :> <<0, 4, 7, 10>>)
    @@ (<<"m", "7">> :> <<0, 3, 7, 10>>)
    @@ (<<"m", "a", "j", "7">> :> <<0, 4, 7, 11>>)
    @@ (<<"d", "i", "m">> :> <<0, 3, 6>>)
    @@ (<<"d", "i", "m", "7">> :> <<0, 3, 6, 9>>)
    @@ (<<"a", "u", "g">> :> <<0, 4, 8>>)
    @@ (<<"+">> :> <<0, 4, 8>>)
    @@ (<<"s", "u", "s", "4">> :> <<0, 5, 7>>)
    @@ (<<"s", "u", "s", "2">> :> <<0, 2, 7>>)
    @@ (<<"6">> :> <<0, 4, 7, 9>>)
    @@ (<<"7", "s", "u", "s", "4">> :> <<0, 5, 7, 10>>)
    @@ (<<"m", "7", "b", "5">> :> <<0, 3, 6, 10>>)

\* mutant: CHORD_FORMULAS.get(suffix, [])
FormulaNoFallback(suffix) ==
    IF suffix \in DOMAIN CHORD_FORMULAS THEN CHORD_FORMULAS[suffix] ELSE <<>>

\* CHORD_FORMULAS.get(suffix, CHORD_FORMULAS[''])
Formula(suffix) ==
    IF suffix \in DOMAIN CHORD_FORMULAS THEN CHORD_FORMULAS[suffix] ELSE CHORD_FORMULAS[<<>>]

\* the character U+00B0 (degree sign) is written "deg"
SCALE_DEGREES_MAJOR ==
    <<<<"I">>, <<"i", "i">>, <<"i", "i", "i">>, <<"I", "V">>, <<"V">>,
      <<"v", "i">>, <<"v", "i", "i", "deg">>>>

SCALE_DEGREES_MINOR ==
    <<<<"i">>, <<"i", "i", "deg">>, <<"I", "I", "I">>, <<"i", "v">>, <<"v">>,
      <<"V", "I">>, <<"V", "I", "I">>>>

\* mutant: the E string tuned a semitone low (39) under the same label
BASS_TUNINGSLowE ==
    (4 :> <<<<<<"G">>, 55>>, <<<<"D">>, 50>>, <<<<"A">>, 45>>, <<<<"E">>, 39>>>>)
    @@ (5 :> <<<<<<"G">>, 55>>, <<<<"D">>, 50>>, <<<<"A">>, 45>>, <<<<"E">>, 39>>,
               <<<<"B">>, 35>>>>)

BASS_TUNINGS ==
    (4 :> <<<<<<"G">>, 55>>, <<<<"D">>, 50>>, <<<<"A">>, 45>>, <<<<"E">>, 40>>>>)
    @@ (5 :> <<<<<<"G">>, 55>>, <<<<"D">>, 50>>, <<<<"A">>, 45>>, <<<<"E">>, 40>>,
               <<<<"B">>, 35>>>>)

FRETS == 5

BASS_NOTE == "BASS_NOTE"
CHORD_NOTE == "CHORD_NOTE"
NOT_IN_CHORD == "NOT_IN_CHORD"

-----------------------------------------------------------------------------
(* class BassCard *)

Digits == <<"0", "1", "2", "3", "4", "5", "6", "7", "8", "9">>

\* str(n) for 0 <= n <= 99, as the f-string formats an int
Str(n) ==
    IF n < 10 THEN <<Digits[n + 1]>>
    ELSE <<Digits[(n \div 10) + 1], Digits[(n % 10) + 1]>>

\* Python truthiness of a str-or-None value: "not x"
Falsy(x) == x = None \/ x = <<>>

\* mutant: is_minor_key = 'm' in self.key
IsMinorKeyAnyM(key) == Contains(key, <<"m">>)

\* is_minor_key = 'm' in self.key and 'maj' not in self.key and 'dim' not in self.key
IsMinorKey(key) ==
    /\ Contains(key, <<"m">>)
    /\ ~Contains(key, <<"m", "a", "j">>)
    /\ ~Contains(key, <<"d", "i", "m">>)

\* key_root = key_root_match.group(1) if key_root_match else 'C'
KeyRoot(key) == IF MatchRoot(key) # None THEN MatchRoot(key) ELSE <<"C">>

\* mutant: degree = (key_pitch - root_pitch) % 12
DegreeReversed(root, key) == (NoteToPitchGet(KeyRoot(key)) - NoteToPitchGet(root)) % 12

\* degree = (root_pitch - key_pitch) % 12
Degree(root, key) == (NoteToPitchGet(root) - NoteToPitchGet(KeyRoot(key))) % 12

\* the if/elif chain on degree and the final f"? ({degree})"
DegreeLabel(degree, scale_degrees) ==
    IF degree = 0 THEN scale_degrees[1]
    ELSE IF degree = 2 THEN scale_degrees[2]
    ELSE IF degree = 4 THEN scale_degrees[3]
    ELSE IF degree = 5 THEN scale_degrees[4]
    ELSE IF degree = 7 THEN scale_degrees[5]
    ELSE IF degree = 9 THEN scale_degrees[6]
    ELSE IF degree = 11 THEN scale_degrees[7]
    ELSE <<"?", " ", "(">> \o Str(degree) \o <<")">>

\* mutant: only the key tested, "if not self.key"
GetScaleDegreeKeyOnly(c, key) ==
    IF Falsy(key) THEN <<"?">>
    ELSE DegreeLabel(Degree(c.root, key),
                     IF IsMinorKey(key) THEN SCALE_DEGREES_MINOR ELSE SCALE_DEGREES_MAJOR)

\* BassCard._get_scale_degree()
GetScaleDegree(c, key) ==
    IF Falsy(key) \/ Falsy(c.root) THEN <<"?">>
    ELSE DegreeLabel(Degree(c.root, key),
                     IF IsMinorKey(key) THEN SCALE_DEGREES_MINOR ELSE SCALE_DEGREES_MAJOR)

\* [(root_pitch + interval) % 12 for interval in formula]
Pitches(root, suffix) ==
    [i \in DOMAIN Formula(suffix) |-> (NoteToPitchGet(root) + Formula(suffix)[i]) % 12]

\* the naming convention chosen in _get_chord_notes (lines 207-210)
NotesPitchToNote(key, root) ==
    IF Contains(key, <<"#">>) \/ Contains(key, <<"m">>) \/ Contains(root, <<"#">>)
    THEN PITCH_TO_NOTE_SHARP
    ELSE PITCH_TO_NOTE_FLAT

\* BassCard._get_chord_notes(); key is a str here
GetChordNotes(c, key) ==
    IF Falsy(c.root) THEN <<<<"?">>>>
    ELSE [i \in DOMAIN Pitches(c.root, c.suffix) |->
             NotesPitchToNote(key, c.root)[Pitches(c.root, c.suffix)[i]]]

\* mutant: the pitches computed without the test of the root
GetChordNotePitchesNoGuard(c) == Pitches(c.root, c.suffix)

\* BassCard._get_chord_note_pitches()
GetChordNotePitches(c) ==
    IF Falsy(c.root) THEN <<>> ELSE Pitches(c.root, c.suffix)

\* mutant: the cell's spelling decided by the key alone
CellNoteNameKeyOnly(key, root, note_pitch) ==
    IF Contains(key, <<"#">>) \/ Contains(key, <<"m">>)
    THEN PITCH_TO_NOTE_SHARP[note_pitch]
    ELSE PITCH_TO_NOTE_FLAT[note_pitch]

\* the note name chosen per cell in _generate_fretboard (lines 244-247)
CellNoteName(key, root, note_pitch) ==
    IF Contains(key, <<"#">>) \/ Contains(key, <<"m">>) \/ Contains(root, <<"#">>)
    THEN PITCH_TO_NOTE_SHARP[note_pitch]
    ELSE PITCH_TO_NOTE_FLAT[note_pitch]

\* mutant: the chord-tone test placed before the bass-note test
CellRoleChordFirst(note_pitch, bass_pitch_class, chord_pitches) ==
    IF \E i \in DOMAIN chord_pitches : chord_pitches[i] = note_pitch THEN CHORD_NOTE
    ELSE IF note_pitch = bass_pitch_class THEN BASS_NOTE
    ELSE NOT_IN_CHORD

\* the if/elif/else that appends one (NoteType, note_name) pair to the row
CellRole(note_pitch, bass_pitch_class, chord_pitches) ==
    IF note_pitch = bass_pitch_class THEN BASS_NOTE
    ELSE IF \E i \in DOMAIN chord_pitches : chord_pitches[i] = note_pitch THEN CHORD_NOTE
    ELSE NOT_IN_CHORD

\* mutant: the frets counted from 1 (range(1, FRETS + 2))
NotePitchFromFretOne(base_pitch, fret) == (base_pitch + fret + 1) % 12

\* note_pitch = (base_pitch + fret) % 12
NotePitch(base_pitch, fret) == (base_pitch + fret) % 12

\* mutant: the open string and two frets only (range(3))
FretRowThreeFrets(base_pitch, key, root, bass_pitch_class, chord_pitches) ==
    [k \in 1..3 |->
        <<CellRole(NotePitch(base_pitch, k - 1), bass_pitch_class, chord_pitches),
          CellNoteName(key, root, NotePitch(base_pitch, k - 1))>>]

\* one row of the grid: for fret in range(FRETS + 1)
FretRow(base_pitch, key, root, bass_pitch_class, chord_pitches) ==
    [k \in 1..(FRETS + 1) |->
        <<CellRole(NotePitch(base_pitch, k - 1), bass_pitch_class, chord_pitches),
          CellNoteName(key, root, NotePitch(base_pitch, k - 1))>>]

\* BassCard._generate_fretboard(); string_count is a key of BASS_TUNINGS here
GenerateFretboard(c, key, string_count, note_pitches, bass_pitch) ==
    [r \in DOMAIN BASS_TUNINGS[string_count] |->
        <<BASS_TUNINGS[string_count][r][1],
          FretRow(BASS_TUNINGS[string_count][r][2], key, c.root, bass_pitch, note_pitches)>>]

\* _get_chord_notes raises: 'x in None' is a TypeError (line 207)
NotesRaise(c, key) == key = None /\ ~Falsy(c.root)

\* the exception BassCard.__init__ raises, "None" when it returns normally:
\*   'x in None' is a TypeError (lines 207 and 244),
\*   NOTE_TO_PITCH.get of a list a TypeError (line 148),
\*   BASS_TUNINGS[string_count] a KeyError (line 234)
Raised(c, key, string_count) ==
    IF NotesRaise(c, key) THEN "TypeError"
    ELSE IF c.bass_note = ListValue THEN "TypeError"
    ELSE IF string_count \notin DOMAIN BASS_TUNINGS THEN "KeyError"
    ELSE IF key = None THEN "TypeError"
    ELSE "None"

\* mutant: the constructor fills in an empty root of the chord object it was
\* given (self.chord.root = self.chord.root or 'C') before it computes
BassCardFillsRoot(c, key, string_count) ==
    LET filled == [c EXCEPT !.root = IF Falsy(c.root) THEN <<"C">> ELSE c.root]
    IN  [raised       |-> "None",
         chord        |-> filled,
         key          |-> key,
         string_count |-> string_count,
         scale_degree |-> GetScaleDegree(filled, key),
         notes        |-> GetChordNotes(filled, key),
         note_pitches |-> GetChordNotePitches(filled),
         bass_pitch   |-> NoteToPitchGet(filled.bass_note),
         fretboard    |-> GenerateFretboard(filled, key, string_count,
                                            GetChordNotePitches(filled),
                                            NoteToPitchGet(filled.bass_note))]

\* BassCard(chord, key, string_count): the constructed object, or the exception
\* with the attributes assigned before it was raised
BassCard(c, key, string_count) ==
    IF Raised(c, key, string_count) # "None"
    THEN [raised       |-> Raised(c, key, string_count),
          chord        |-> c,
          key          |-> key,
          string_count |-> string_count,
          scale_degree |-> GetScaleDegree(c, key),
          notes        |-> IF NotesRaise(c, key) THEN Unset ELSE GetChordNotes(c, key),
          note_pitches |-> IF NotesRaise(c, key) THEN Unset ELSE GetChordNotePitches(c),
          bass_pitch   |-> IF NotesRaise(c, key) \/ c.bass_note = ListValue
                           THEN -1
                           ELSE NoteToPitchGet(c.bass_note),
          fretboard    |-> Unset]
    ELSE [raised       |-> "None",
          chord        |-> c,
          key          |-> key,
          string_count |-> string_count,
          scale_degree |-> GetScaleDegree(c, key),
          notes        |-> GetChordNotes(c, key),
          note_pitches |-> GetChordNotePitches(c),
          bass_pitch   |-> NoteToPitchGet(c.bass_note),
          fretboard    |-> GenerateFretboard(c, key, string_count,
                                             GetChordNotePitches(c),
                                             NoteToPitchGet(c.bass_note))]

-----------------------------------------------------------------------------
(* class BassChordApp: the song text *)

STANDARD == 1
EDUCATIONAL == 2

FOUR_STRINGS == 4

\* re.match(r'^\[.*\]$', line), for a line without a line break
IsHeader(line) == Len(line) >= 2 /\ line[1] = "[" /\ line[Len(line)] = "]"

\* line[1:-1]
Inner(line) == SubSeq(line, 2, Len(line) - 1)

\* the length of the leading run of non-whitespace characters of s
RECURSIVE RunLen(_)
RunLen(s) ==
    IF s = <<>> \/ Head(s) \in Whitespace THEN 0 ELSE 1 + RunLen(Tail(s))

\* re.findall(r'\S+', s)
RECURSIVE FindAll(_)
FindAll(s) ==
    IF LStrip(s) = <<>> THEN <<>>
    ELSE <<SubSeq(LStrip(s), 1, RunLen(LStrip(s)))>>
         \o FindAll(SliceFrom(LStrip(s), RunLen(LStrip(s))))

\* for token in chord_tokens: if token.strip(): self.song.add_chord(token, current_section)
RECURSIVE AddTokens(_, _, _)
AddTokens(chords, chord_tokens, current_section) ==
    IF chord_tokens = <<>> THEN chords
    ELSE AddTokens(IF Strip(Head(chord_tokens)) # <<>>
                   THEN add_chord(chords, Head(chord_tokens), current_section)
                   ELSE chords,
                   Tail(chord_tokens), current_section)

\* mutant: the section name reset to "" after every chord line
RECURSIVE ParseLinesSectionReset(_, _, _)
ParseLinesSectionReset(lines, current_section, chords) ==
    IF lines = <<>> THEN chords
    ELSE LET line == Strip(Head(lines))
         IN  IF line = <<>>
             THEN ParseLinesSectionReset(Tail(lines), current_section, chords)
             ELSE IF IsHeader(line)
             THEN ParseLinesSectionReset(Tail(lines), Strip(Inner(line)), chords)
             ELSE IF line[1] = "."
             THEN ParseLinesSectionReset(Tail(lines), <<>>,
                             AddTokens(chords, FindAll(Strip(SliceFrom(line, 1))),
                                       current_section))
             ELSE ParseLinesSectionReset(Tail(lines), current_section, chords)

\* the loop "for line in lines" of analyze_chords
RECURSIVE ParseLines(_, _, _)
ParseLines(lines, current_section, chords) ==
    IF lines = <<>> THEN chords
    ELSE LET line == Strip(Head(lines))
         IN  IF line = <<>>
             THEN ParseLines(Tail(lines), current_section, chords)
             ELSE IF IsHeader(line)
             THEN ParseLines(Tail(lines), Strip(Inner(line)), chords)
             ELSE IF line[1] = "."
             THEN ParseLines(Tail(lines), current_section,
                             AddTokens(chords, FindAll(Strip(SliceFrom(line, 1))),
                                       current_section))
             ELSE ParseLines(Tail(lines), current_section, chords)

\* self.song_text.get(1.0, tk.END): the text of the widget and a final line break
SongTextGet(song_text) == song_text \o <<"\n">>

\* the chords analyze_chords reads from the song text (lines 740-765)
ParseSongText(song_text) == ParseLines(Split(SongTextGet(song_text), "\n"), <<>>, <<>>)

-----------------------------------------------------------------------------
(* class BassChordApp: the cards and their display *)

\* mutant: the cards collected in the reverse of the chord order
CardsOfReversed(chords, key, string_count) ==
    [i \in DOMAIN chords |-> BassCard(chords[Len(chords) + 1 - i], key, string_count)]

\* [BassCard(chord, self.song.key, self.string_count.get()) for chord in self.song.chords]
CardsOf(chords, key, string_count) ==
    [i \in DOMAIN chords |-> BassCard(chords[i], key, string_count)]

\* the exception the list comprehension raises (that of the first card that
\* fails; the cards built before it are dropped with the list), "None" when
\* every card is built
CardsRaised(chords, key, string_count) ==
    IF \E i \in DOMAIN chords : Raised(chords[i], key, string_count) # "None"
    THEN Raised(chords[CHOOSE i \in DOMAIN chords :
                          /\ Raised(chords[i], key, string_count) # "None"
                          /\ \A j \in 1..(i - 1) :
                                Raised(chords[j], key, string_count) = "None"],
                key, string_count)
    ELSE "None"

\* mutant: both modes label a cell by its role
GetMarkerTextRoleOnly(note_type, note_name, mode) ==
    IF note_type = BASS_NOTE THEN <<"B">>
    ELSE IF note_type = CHORD_NOTE THEN <<"X">>
    ELSE <<".">>

\* BassChordApp._get_marker_text()
GetMarkerText(note_type, note_name, mode) ==
    IF mode = STANDARD
    THEN IF note_type = BASS_NOTE THEN <<"B">>
         ELSE IF note_type = CHORD_NOTE THEN <<"X">>
         ELSE <<".">>
    ELSE IF note_type = NOT_IN_CHORD THEN <<".">> ELSE note_name

\* one pass of the loop "for i, card in enumerate(self.cards)" of display_cards:
\* the frame of the card, or the error frame when DisplayMode(value) raises
RenderCard(c, display_mode) ==
    IF display_mode \notin {STANDARD, EDUCATIONAL}
    THEN [error        |-> "ValueError",
          symbol       |-> c.chord.symbol,
          scale_degree |-> Unset,
          rows         |-> <<>>]
    ELSE [error        |-> "None",
          symbol       |-> c.chord.symbol,
          scale_degree |-> c.scale_degree,
          rows         |-> [r \in DOMAIN c.fretboard |->
                               <<c.fretboard[r][1],
                                 [k \in DOMAIN c.fretboard[r][2] |->
                                     GetMarkerText(c.fretboard[r][2][k][1],
                                                   c.fretboard[r][2][k][2],
                                                   display_mode)]>>]]

\* BassChordApp.display_cards(): what the cards container shows
DisplayCards(cards, sng, string_count, display_mode) ==
    IF cards = <<>>
    THEN [meta |-> Unset, items |-> <<>>]
    ELSE [meta  |-> [title |-> sng.title, author |-> sng.author, key |-> sng.key,
                     string_count |-> string_count],
          items |-> [i \in DOMAIN cards |-> RenderCard(cards[i], display_mode)]]

\* BassChordApp._get_html_marker_text()
GetHtmlMarkerText(note_type, note_name, mode) ==
    IF mode = STANDARD
    THEN IF note_type = BASS_NOTE THEN <<"B">>
         ELSE IF note_type = CHORD_NOTE THEN <<"X">>
         ELSE <<".">>
    ELSE IF note_type = NOT_IN_CHORD THEN <<".">> ELSE note_name

\* BassChordApp.generate_html_content(): the song-meta block and one card
\* block per card, each row with its label and the text of its six cells
HtmlContent(cards, sng, display_mode, string_count) ==
    [meta  |-> [title |-> sng.title, author |-> sng.author, key |-> sng.key,
                string_count |-> string_count],
     items |-> [i \in DOMAIN cards |->
                  [error        |-> "None",
                   symbol       |-> cards[i].chord.symbol,
                   scale_degree |-> cards[i].scale_degree,
                   rows         |-> [r \in DOMAIN cards[i].fretboard |->
                                        <<cards[i].fretboard[r][1],
                                          [k \in DOMAIN cards[i].fretboard[r][2] |->
                                              GetHtmlMarkerText(cards[i].fretboard[r][2][k][1],
                                                                cards[i].fretboard[r][2][k][2],
                                                                display_mode)]>>]]]]

\* no document has been written, none has been read
NoFile == [missing |-> TRUE]

\* BassChordApp.__init__
NewApp ==
    [cards        |-> <<>>,
     string_count |-> FOUR_STRINGS,
     display_mode |-> STANDARD,
     song_text    |-> <<>>,
     title_var    |-> <<>>,
     author_var   |-> <<>>,
     shown        |-> [meta |-> Unset, items |-> <<>>],
     error        |-> "None",
     data         |-> NoFile,
     html         |-> Unset]

\* mutant: the key detected on every analysis
AnalyzedKeyAlwaysDetected(key, chords) == detect_key(chords)

\* if not self.song.key: self.song.key = self.song.detect_key()
AnalyzedKey(key, chords) == IF Falsy(key) THEN detect_key(chords) ELSE key

-----------------------------------------------------------------------------
(* class BassChordApp: the saved document *)

\* a YAML scalar as yaml.dump writes it: a string, null for None; a sequence
\* node stands for a list
Node(v) ==
    IF v = None THEN <<"null">>
    ELSE IF v = ListValue THEN <<"seq">>
    ELSE <<"str", v>>

IntNode(n) == <<"int", n>>

\* the Python value yaml.safe_load builds from a scalar or sequence node
Value(node) ==
    IF node[1] = "null" THEN None
    ELSE IF node[1] = "seq" THEN ListValue
    ELSE node[2]

\* a file that cannot be opened or is not YAML
Unreadable == [unreadable |-> TRUE]

\* d.get(k, default) on a mapping node
Get(d, k, default) == IF k \in DOMAIN d THEN d[k] ELSE default

\* the mapping with no key: {}
EmptyMap == [k \in {} |-> <<>>]

\* the data save_cards dumps (lines 913-930): the chords are those of the cards
SavedData(sng, a) ==
    [song     |-> [title  |-> Node(sng.title),
                   author |-> Node(sng.author),
                   key    |-> Node(sng.key)],
     settings |-> [string_count |-> IntNode(a.string_count),
                   display_mode |-> IntNode(a.display_mode)],
     chords   |-> [i \in DOMAIN a.cards |->
                      [symbol    |-> Node(a.cards[i].chord.symbol),
                       section   |-> Node(a.cards[i].chord.section),
                       bass_note |-> Node(a.cards[i].chord.bass_note)]]]

\* chord_data has the three keys lines 967-968 subscript
EntryComplete(chord_data) == {"symbol", "section", "bass_note"} \subseteq DOMAIN chord_data

\* mutant: the bass note left as parsed from the symbol
LoadedChordParsedBass(chord_data) ==
    Chord(Value(chord_data.symbol), Value(chord_data.section))

\* chord = Chord(chord_data['symbol'], chord_data['section'])
\* chord.bass_note = chord_data['bass_note']
LoadedChord(chord_data) ==
    [Chord(Value(chord_data.symbol), Value(chord_data.section))
        EXCEPT !.bass_note = Value(chord_data.bass_note)]

\* the loop of lines 966-969: the chords appended before the first entry
\* that lacks a key (all of them when none does)
RECURSIVE LoadedChords(_)
LoadedChords(entries) ==
    IF entries = <<>> \/ ~EntryComplete(Head(entries)) THEN <<>>
    ELSE <<LoadedChord(Head(entries))>> \o LoadedChords(Tail(entries))

\* the KeyError of a subscript on an entry that lacks the key
EntriesRaised(entries) ==
    IF \E i \in DOMAIN entries : ~EntryComplete(entries[i]) THEN "KeyError" ELSE "None"

\* the song after lines 952-969 have run on the loaded data
LoadedSong(data) ==
    [title  |-> Value(Get(Get(data, "song", EmptyMap), "title", Node(<<>>))),
     author |-> Value(Get(Get(data, "song", EmptyMap), "author", Node(<<>>))),
     key    |-> Value(Get(Get(data, "song", EmptyMap), "key", Node(<<>>))),
     chords |-> LoadedChords(Get(data, "chords", <<>>))]

\* settings.get('string_count', StringCount.FOUR_STRINGS.value)
LoadedStringCount(data) ==
    Get(Get(data, "settings", EmptyMap), "string_count", IntNode(FOUR_STRINGS))[2]

\* settings.get('display_mode', DisplayMode.STANDARD.value)
LoadedDisplayMode(data) ==
    Get(Get(data, "settings", EmptyMap), "display_mode", IntNode(STANDARD))[2]

\* the exception that ends the try block of load_cards, "None" when it runs
\* to its end
LoadRaised(data) ==
    IF data = Unreadable THEN "YAMLError"
    ELSE IF EntriesRaised(Get(data, "chords", <<>>)) # "None"
    THEN EntriesRaised(Get(data, "chords", <<>>))
    ELSE CardsRaised(LoadedSong(data).chords, LoadedSong(data).key,
                     LoadedStringCount(data))

-----------------------------------------------------------------------------
(* Inputs *)

\* the longest symbol drawn from the alphabet, and the longest chord list
MaxSymbolLen == 4
MaxChords == 4

SymbolAlphabet == {"A", "#", "b", "M", "7", "/", " ", "h"}

ExampleSymbols ==
    {<<"C">>,
     <<"A", "m", "7">>,
     <<"F", "#", "7", "s", "u", "s", "4", "/", "C", "#">>,
     <<"B", "7", "/", "D", "#">>,
     <<"B", "b", "M", "a", "j", "7">>,
     <<"C", "/", "E", "/", "G">>}

Symbols ==
    (UNION {[1..n -> SymbolAlphabet] : n \in 0..MaxSymbolLen}) \cup ExampleSymbols

Sections == {<<>>, <<"V", "1">>}

\* tokens of the chord lists key detection is run on
KeyTokens ==
    {<<"E", "m">>, <<"C">>, <<"B">>, <<"E">>, <<"E", "d", "i", "m">>,
     <<"C", "m", "a", "j", "7">>, <<"C", "#">>, <<"/", "E">>, <<"B", "m", "7">>}

RECURSIVE ChordsOf(_)
ChordsOf(tokens) ==
    IF tokens = <<>> THEN <<>>
    ELSE add_chord(ChordsOf(SubSeq(tokens, 1, Len(tokens) - 1)), tokens[Len(tokens)], <<>>)

ExampleSong ==
    ChordsOf(<<<<"E", "m">>, <<"C">>, <<"B">>, <<"E", "m">>, <<"C">>, <<"B">>,
               <<"E", "m">>, <<"C">>>>)

\* chords and keys a BassCard is built from
CardRoots ==
    DOMAIN NOTE_TO_PITCH \cup {<<"C", "b">>, <<"E", "#">>, <<"H">>}

CardSuffixes ==
    DOMAIN CHORD_FORMULAS \cup {<<"x", "y", "z", "1", "2", "3">>, <<"M", "a", "j", "7">>}

CardBasses == {<<>>, <<"/", "E">>, <<"/", "C", "#">>, <<"/", "e">>}

CardSymbols ==
    {r \o x \o b : r \in CardRoots, x \in CardSuffixes, b \in CardBasses}
    \cup {<<"/", "E">>, <<>>}

CardKeys ==
    {None, <<>>, <<"C">>, <<"A", "m">>, <<"F", "#">>, <<"B", "b">>,
     <<"E", "b", "m">>, <<"C", "m", "a", "j">>, <<"B", "d", "i", "m">>, <<"H">>}

StringCounts == {4, 5}

\* the longest song text drawn from the alphabet, and the most events the
\* application handles in one run
MaxTextLen == 5
MaxEvents == 4

TextAlphabet == {"A", ".", "[", "]", " ", "\n"}

TextHelpExample ==
    <<"[", "V", "1", "]", "\n", ".", "E", "m", "\n", " ", "l", "a", "\n",
      ".", " ", " ", " ", "C", " ", " ", " ", "B", "\n", "[", "P", "1",
      "]", "\n", ".", "A", "m", " ", "C", "/", "E">>

TextPaddedHeader ==
    <<" ", "[", "A", "]", "\n", ".", "A">>

TextPaddedSection ==
    <<"[", " ", "A", " ", "]", "\n", ".", "A">>

TextTwoSections ==
    <<".", "A", "\n", "[", "A", "]", "\n", ".", "A", " ", "A", "\n", "[",
      "B", "]", "\n", "A", "\n", ".", " ", "E">>

ExampleTexts == {TextHelpExample, TextPaddedHeader, TextPaddedSection, TextTwoSections}

Texts ==
    (UNION {[1..n -> TextAlphabet] : n \in 0..MaxTextLen}) \cup ExampleTexts

\* the song texts a user enters, each with its title and author
TextShort ==
    <<"[", "V", "]", "\n", ".", "E", "m", " ", "C", "\n", "l", "a", "\n",
      ".", "E", "m">>

AppSongs ==
    {[text |-> <<>>, title |-> <<>>, author |-> <<>>],
     [text |-> TextShort, title |-> <<"T">>, author |-> <<"U">>],
     [text |-> TextPaddedHeader, title |-> <<>>, author |-> <<"U">>]}

\* the song texts whose cards are rendered on screen and in HTML
TextSlashChords ==
    <<".", "A", "m", "7", " ", "C", "#", "/", "E", " ", "B", "b">>

RenderTexts == {<<>>, TextShort, TextPaddedHeader, TextSlashChords}

\* documents found on disk besides the one save_cards wrote
DocGood ==
    [song     |-> [title |-> Node(<<"T">>), author |-> Node(<<"U">>), key |-> Node(<<"G">>)],
     settings |-> [string_count |-> IntNode(5), display_mode |-> IntNode(2)],
     chords   |-> <<[symbol |-> Node(<<"C">>), section |-> Node(<<"V", "1">>), bass_note |-> Node(<<"G">>)],
                    [symbol |-> Node(<<"A", "m", "7">>), section |-> Node(<<"V", "1">>), bass_note |-> Node(<<"A">>)]>>]

DocNoKey ==
    [song     |-> [title |-> Node(<<"T">>)],
     chords   |-> <<[symbol |-> Node(<<"C">>), section |-> Node(<<>>), bass_note |-> Node(<<"C">>)]>>]

DocNullKey ==
    [song     |-> [title |-> Node(<<"T">>), author |-> Node(<<"U">>), key |-> Node(None)],
     settings |-> [string_count |-> IntNode(4), display_mode |-> IntNode(1)],
     chords   |-> <<[symbol |-> Node(<<"C">>), section |-> Node(<<>>), bass_note |-> Node(<<"C">>)]>>]

DocSixStrings ==
    [song     |-> [title |-> Node(<<"T">>), author |-> Node(<<"U">>), key |-> Node(<<"E", "m">>)],
     settings |-> [string_count |-> IntNode(6), display_mode |-> IntNode(1)],
     chords   |-> <<[symbol |-> Node(<<"E", "m">>), section |-> Node(<<>>), bass_note |-> Node(<<"E">>)]>>]

DocMissingField ==
    [song     |-> [title |-> Node(<<"T">>), author |-> Node(<<"U">>), key |-> Node(<<"C">>)],
     settings |-> [string_count |-> IntNode(4), display_mode |-> IntNode(1)],
     chords   |-> <<[symbol |-> Node(<<"C">>), section |-> Node(<<>>), bass_note |-> Node(<<"C">>)],
                    [symbol |-> Node(<<"D">>), section |-> Node(<<>>)]>>]

DocListBass ==
    [song     |-> [title |-> Node(<<"T">>), author |-> Node(<<"U">>), key |-> Node(<<"C">>)],
     settings |-> [string_count |-> IntNode(4), display_mode |-> IntNode(1)],
     chords   |-> <<[symbol |-> Node(<<"C">>), section |-> Node(<<>>), bass_note |-> Node(<<"C">>)],
                    [symbol |-> Node(<<"D">>), section |-> Node(<<>>), bass_note |-> Node(ListValue)],
                    [symbol |-> Node(<<"G">>), section |-> Node(<<>>), bass_note |-> Node(<<"G">>)]>>]

DocBadMode ==
    [song     |-> [title |-> Node(<<"T">>), author |-> Node(<<"U">>), key |-> Node(<<"C">>)],
     settings |-> [string_count |-> IntNode(4), display_mode |-> IntNode(3)],
     chords   |-> <<[symbol |-> Node(<<"C">>), section |-> Node(<<>>), bass_note |-> Node(<<"C">>)],
                    [symbol |-> Node(<<"G">>), section |-> Node(<<>>), bass_note |-> Node(<<"G">>)]>>]

Documents ==
    {DocGood, DocNoKey, DocNullKey, DocSixStrings, DocMissingField, DocListBass,
     DocBadMode, Unreadable}

\* the most cards built one after another from the chords of one song, the
\* tokens of that song and the keys the cards are built in
MaxBuilds == 3

RebuildTokens == {<<"A", "m", "7">>, <<"/", "E">>, <<"C", "#">>, <<"B", "b", "/", "D">>}

RebuildSongs == {ChordsOf(<<a, b>>) : a \in RebuildTokens, b \in RebuildTokens}

RebuildKeys == {<<"C">>, <<"F", "#", "m">>}

NoChord == ChordFields(<<>>, <<>>)

NoSong == [title |-> <<>>, author |-> <<>>, key |-> None, chords |-> <<>>]

\* a BassCard whose __init__ has assigned its three arguments (lines 142-144)
CardFields(c, key, string_count) ==
    [raised       |-> "None",
     chord        |-> c,
     key          |-> key,
     string_count |-> string_count,
     scale_degree |-> Unset,
     notes        |-> Unset,
     note_pitches |-> Unset,
     bass_pitch   |-> -1,
     fretboard    |-> Unset]

NoCard == CardFields(NoChord, None, 4)

-----------------------------------------------------------------------------
(* Chord construction: Chord(symbol, section) *)

ParseInit ==
    /\ pc = "Chord.__init__"
    /\ chord \in {ChordFields(y, x) : y \in Symbols, x \in Sections}
    /\ song = NoSong
    /\ detected = Unset
    /\ card = NoCard
    /\ app = NewApp
    /\ file = NoFile
    /\ events = 0

ChordParse ==
    /\ pc = "Chord.__init__"
    /\ chord' = parse(chord)
    /\ pc' = "Chord"
    /\ UNCHANGED <<song, detected, card, app, file, events>>

ParseNext == ChordParse

SpecParse == ParseInit /\ [][ParseNext]_vars

-----------------------------------------------------------------------------
(* Key detection: Song.add_chord and Song.detect_key *)

KeyInit ==
    /\ pc = "Song"
    /\ song \in {[NoSong EXCEPT !.chords = cs] : cs \in {<<>>, ExampleSong}}
    /\ chord = NoChord
    /\ detected = Unset
    /\ card = NoCard
    /\ app = NewApp
    /\ file = NoFile
    /\ events = 0

SongAddChord ==
    /\ Len(song.chords) < MaxChords
    /\ \E token \in KeyTokens :
          song' = [song EXCEPT !.chords = add_chord(song.chords, token, <<>>)]
    /\ pc' = "Song"
    /\ detected' = Unset
    /\ UNCHANGED <<chord, card, app, file, events>>

SongDetectKey ==
    /\ pc = "Song"
    /\ detected' = detect_key(song.chords)
    /\ pc' = "detect_key"
    /\ UNCHANGED <<chord, song, card, app, file, events>>

KeyNext == SongAddChord \/ SongDetectKey

SpecKey == KeyInit /\ [][KeyNext]_vars

-----------------------------------------------------------------------------
(* Card construction: BassCard(chord, key, string_count) *)

CardInit ==
    /\ pc = "BassCard.__init__"
    /\ card \in {CardFields(Chord(y, <<>>), k, n) :
                    y \in CardSymbols, k \in CardKeys, n \in StringCounts}
    /\ chord = NoChord
    /\ song = NoSong
    /\ detected = Unset
    /\ app = NewApp
    /\ file = NoFile
    /\ events = 0

CardConstruct ==
    /\ pc = "BassCard.__init__"
    /\ card' = BassCard(card.chord, card.key, card.string_count)
    /\ pc' = "BassCard"
    /\ UNCHANGED <<chord, song, detected, app, file, events>>

CardNext == CardConstruct

SpecCard == CardInit /\ [][CardNext]_vars

-----------------------------------------------------------------------------
(* Cards built one after another from the chord objects of one song *)

RebuildInit ==
    /\ pc = "Song"
    /\ song \in {[NoSong EXCEPT !.chords = cs] : cs \in RebuildSongs}
    /\ chord = NoChord
    /\ detected = Unset
    /\ card = NoCard
    /\ app = NewApp
    /\ file = NoFile
    /\ events = 0

\* BassCard(chord, key, string_count) on a chord of the song: the card keeps a
\* reference to the chord object of the song (self.chord = chord), so what the
\* constructor did to its chord is what the song's chord list now holds; the
\* cards built so far are kept in app.cards
CardRebuild ==
    /\ Len(app.cards) < MaxBuilds
    /\ \E i \in DOMAIN song.chords, key \in RebuildKeys, n \in StringCounts :
          LET built == BassCard(song.chords[i], key, n)
          IN  /\ card' = built
              /\ song' = [song EXCEPT !.chords[i] = built.chord]
              /\ app' = [app EXCEPT !.cards = Append(@, built)]
    /\ pc' = "BassCard"
    /\ UNCHANGED <<chord, detected, file, events>>

RebuildNext == CardRebuild

SpecRebuild == RebuildInit /\ [][RebuildNext]_vars

-----------------------------------------------------------------------------
(* The application: analyze_chords on a song text *)

\* the event loop hands one more event to its handler
Handled == events < MaxEvents /\ events' = events + 1

\* BassChordApp.analyze_chords(), with the display_cards() it ends with; when
\* a card cannot be built the exception leaves the handler before line 772
\* assigns self.cards
AnalyzeChords ==
    LET chords == ParseSongText(app.song_text)
        key    == AnalyzedKey(song.key, chords)
        sng    == [title  |-> app.title_var,
                   author |-> app.author_var,
                   key    |-> key,
                   chords |-> chords]
        raised == CardsRaised(chords, key, app.string_count)
        cards  == CardsOf(chords, key, app.string_count)
    IN  /\ song' = sng
        /\ app' = IF raised # "None"
                  THEN [app EXCEPT !.error = raised]
                  ELSE [app EXCEPT !.cards = cards,
                                   !.shown = DisplayCards(cards, sng, app.string_count,
                                                          app.display_mode),
                                   !.error = "None"]
        /\ pc' = "analyze_chords"
        /\ Handled
        /\ UNCHANGED <<chord, detected, card, file>>

\* a new application with a text in its song text widget
AnalyzeInit ==
    /\ pc = "BassChordApp"
    /\ app \in {[NewApp EXCEPT !.song_text = t] : t \in Texts}
    /\ song = NoSong
    /\ chord = NoChord
    /\ detected = Unset
    /\ card = NoCard
    /\ file = NoFile
    /\ events = 0

AnalyzeNext == AnalyzeChords

SpecAnalyze == AnalyzeInit /\ [][AnalyzeNext]_vars

-----------------------------------------------------------------------------
(* The application: its handlers in any order *)

\* the user types a song text, a title and an author into the widgets
EditSong ==
    /\ \E s \in AppSongs :
          app' = [app EXCEPT !.song_text = s.text, !.title_var = s.title,
                             !.author_var = s.author]
    /\ pc' = "edit"
    /\ Handled
    /\ UNCHANGED <<chord, song, detected, card, file>>

\* a radiobutton of the Display Mode menu: the variable is set, then
\* command=self.display_cards runs (lines 317-324)
SetDisplayMode ==
    /\ \E m \in {STANDARD, EDUCATIONAL} :
          app' = [app EXCEPT !.display_mode = m,
                             !.shown = DisplayCards(app.cards, song, app.string_count, m)]
    /\ pc' = "display_cards"
    /\ Handled
    /\ UNCHANGED <<chord, song, detected, card, file>>

\* a radiobutton of the Bass Type menu: the variable is set, then
\* command=self.display_cards runs (lines 329-336)
SetStringCount ==
    /\ \E n \in StringCounts :
          app' = [app EXCEPT !.string_count = n,
                             !.shown = DisplayCards(app.cards, song, n, app.display_mode)]
    /\ pc' = "display_cards"
    /\ Handled
    /\ UNCHANGED <<chord, song, detected, card, file>>

\* BassChordApp.save_cards(): nothing without cards; else the document is
\* written, or open() fails and the file stays as it was
SaveCards ==
    /\ \/ /\ app.cards = <<>>
          /\ UNCHANGED <<app, file>>
       \/ /\ app.cards # <<>>
          /\ file' = SavedData(song, app)
          /\ app' = [app EXCEPT !.error = "None"]
       \/ /\ app.cards # <<>>
          /\ file' = file
          /\ app' = [app EXCEPT !.error = "OSError"]
    /\ pc' = "save_cards"
    /\ Handled
    /\ UNCHANGED <<chord, song, detected, card>>

\* BassChordApp.load_cards() on the chosen file: each assignment of the try
\* block up to the exception takes effect, the except clause restores nothing
LoadCards ==
    /\ \E data \in Documents \cup ({file} \ {NoFile}) :
          LET raised == LoadRaised(data)
              sng    == LoadedSong(data)
              cards  == CardsOf(sng.chords, sng.key, LoadedStringCount(data))
          IN  IF data = Unreadable
              THEN /\ song' = song
                   /\ app' = [app EXCEPT !.error = raised, !.data = data]
              ELSE /\ song' = sng
                   /\ app' = IF raised # "None"
                             THEN [app EXCEPT !.title_var = sng.title,
                                              !.author_var = sng.author,
                                              !.string_count = LoadedStringCount(data),
                                              !.display_mode = LoadedDisplayMode(data),
                                              !.error = raised,
                                              !.data = data]
                             ELSE [app EXCEPT !.title_var = sng.title,
                                              !.author_var = sng.author,
                                              !.string_count = LoadedStringCount(data),
                                              !.display_mode = LoadedDisplayMode(data),
                                              !.cards = cards,
                                              !.shown = DisplayCards(cards, sng,
                                                           LoadedStringCount(data),
                                                           LoadedDisplayMode(data)),
                                              !.error = "None",
                                              !.data = data]
    /\ pc' = "load_cards"
    /\ Handled
    /\ UNCHANGED <<chord, detected, card, file>>

\* BassChordApp.export_html(): nothing without cards; else the file is opened
\* and the HTML written to it (DisplayMode(value) raises inside the try block,
\* after open() has emptied the file), or open() fails
ExportHtml ==
    /\ \/ /\ app.cards = <<>>
          /\ UNCHANGED app
       \/ /\ app.cards # <<>>
          /\ app' = IF app.display_mode \notin {STANDARD, EDUCATIONAL}
                    THEN [app EXCEPT !.error = "ValueError",
                                     !.html = [meta |-> Unset, items |-> <<>>]]
                    ELSE [app EXCEPT !.error = "None",
                                     !.html = HtmlContent(app.cards, song, app.display_mode,
                                                          app.string_count)]
       \/ /\ app.cards # <<>>
          /\ app' = [app EXCEPT !.error = "OSError"]
    /\ pc' = "export_html"
    /\ Handled
    /\ UNCHANGED <<chord, song, detected, card, file>>

AppInit ==
    /\ pc = "BassChordApp"
    /\ app = NewApp
    /\ song = NoSong
    /\ chord = NoChord
    /\ detected = Unset
    /\ card = NoCard
    /\ file = NoFile
    /\ events = 0

AppNext ==
    \/ EditSong
    \/ AnalyzeChords
    \/ SetDisplayMode
    \/ SetStringCount
    \/ SaveCards
    \/ LoadCards

SpecApp == AppInit /\ [][AppNext]_vars

-----------------------------------------------------------------------------
(* The application: the two renderers *)

\* a new application with a text in its song text widget
RenderInit ==
    /\ pc = "BassChordApp"
    /\ app \in {[NewApp EXCEPT !.song_text = t] : t \in RenderTexts}
    /\ song = NoSong
    /\ chord = NoChord
    /\ detected = Unset
    /\ card = NoCard
    /\ file = NoFile
    /\ events = 0

RenderNext ==
    \/ AnalyzeChords
    \/ SetDisplayMode
    \/ ExportHtml

SpecRender == RenderInit /\ [][RenderNext]_vars

-----------------------------------------------------------------------------
(* Properties of BassCard, under SpecCard *)

Range(f) == {f[i] : i \in DOMAIN f}

\* the card has been constructed and no exception was raised
CardBuilt == pc = "BassCard" /\ card.raised = "None"

\* the pitch class a cell's note name stands for
CellPitch(cell) == NOTE_TO_PITCH[cell[2]]

SymbolAm7 == <<"A", "m", "7">>

\* C1: every (string, fret) cell of a card has exactly the role BassNote when
\* its pitch class is the chord's bass pitch class, else ChordTone when its
\* pitch class is one of the chord-tone pitch classes, else NotInChord; a cell
\* that is both is BassNote (Am7 on 4 strings: the open G string is ChordTone,
\* its fret 2 is BassNote).
C1_OneRolePerCell ==
    CardBuilt =>
        /\ \A r \in DOMAIN card.fretboard : \A k \in DOMAIN card.fretboard[r][2] :
              LET cell == card.fretboard[r][2][k]
              IN  cell[1] = IF CellPitch(cell) = NoteToPitchGet(card.chord.bass_note)
                            THEN BASS_NOTE
                            ELSE IF CellPitch(cell) \in Range(card.note_pitches)
                                 THEN CHORD_NOTE
                                 ELSE NOT_IN_CHORD
        /\ (card.chord.symbol = SymbolAm7 /\ card.string_count = 4) =>
              /\ card.fretboard[1][1] = <<"G">>
              /\ card.fretboard[1][2][1][1] = CHORD_NOTE
              /\ card.fretboard[1][2][3][1] = BASS_NOTE

\* C1 witness: the Am7 card on 4 strings, whose G-string fret 2 (pitch class 9)
\* is the bass and a chord tone, and is marked BassNote
C1_Witness ==
    /\ CardBuilt
    /\ card.chord.symbol = SymbolAm7
    /\ card.string_count = 4
    /\ card.bass_pitch = 9
    /\ 9 \in Range(card.note_pitches)
    /\ card.fretboard[1][2][3] = <<BASS_NOTE, <<"A">>>>
    /\ card.fretboard[1][2][1][1] = CHORD_NOTE

\* C2: the rows are labelled G, D, A, E (4 strings) or G, D, A, E, B (5
\* strings) in that order, every row has 6 cells for frets 0..5 in ascending
\* order, and the cell at fret f has pitch class (open string pitch + f) mod 12.
C2_GridShape ==
    CardBuilt =>
        /\ card.string_count = 4 =>
              [r \in DOMAIN card.fretboard |-> card.fretboard[r][1]]
                 = <<<<"G">>, <<"D">>, <<"A">>, <<"E">>>>
        /\ card.string_count = 5 =>
              [r \in DOMAIN card.fretboard |-> card.fretboard[r][1]]
                 = <<<<"G">>, <<"D">>, <<"A">>, <<"E">>, <<"B">>>>
        /\ \A r \in DOMAIN card.fretboard :
              /\ Len(card.fretboard[r][2]) = 6
              /\ \A f \in 0..5 :
                    CellPitch(card.fretboard[r][2][f + 1])
                       = (<<55, 50, 45, 40, 35>>[r] + f) % 12

\* C2 witness: a 5-string card whose last row is the B string, with E at fret 5
C2_Witness ==
    /\ CardBuilt
    /\ card.string_count = 5
    /\ Len(card.fretboard) = 5
    /\ card.fretboard[5][1] = <<"B">>
    /\ card.fretboard[5][2][1][2] = <<"B">>
    /\ card.fretboard[5][2][6][2] = <<"E">>

\* the formula the table gives for a suffix, the major triad for any other
C3_Formula(suffix) ==
    IF suffix \in DOMAIN CHORD_FORMULAS THEN CHORD_FORMULAS[suffix] ELSE <<0, 4, 7>>

SuffixXyz123 == <<"x", "y", "z", "1", "2", "3">>

\* C3: for a chord with a non-empty root the chord-tone pitch classes are
\* (pitchClass(root) + offset) mod 12 for each offset of the suffix's formula,
\* in formula order, with one note name per entry and no deduplication; an
\* unknown suffix ("xyz123") uses [0,4,7], and the construction does not fail
\* for any suffix (the key being a string).
C3_ChordTonePitches ==
    /\ (pc = "BassCard" /\ card.key # None) => card.raised = "None"
    /\ (CardBuilt /\ card.chord.root # <<>>) =>
          LET f == C3_Formula(card.chord.suffix)
          IN  /\ card.note_pitches
                    = [i \in 1..Len(f) |-> (NoteToPitchGet(card.chord.root) + f[i]) % 12]
              /\ Len(card.notes) = Len(f)
              /\ \A i \in 1..Len(f) : NOTE_TO_PITCH[card.notes[i]] = card.note_pitches[i]
    /\ (CardBuilt /\ card.chord.root # <<>> /\ card.chord.suffix = SuffixXyz123) =>
          card.note_pitches = [i \in 1..3 |->
                                 (NoteToPitchGet(card.chord.root) + <<0, 4, 7>>[i]) % 12]

\* C3 witness: the chord Dxyz123, built as the major triad D, F#, A
C3_Witness ==
    /\ CardBuilt
    /\ card.chord.root = <<"D">>
    /\ card.chord.suffix = SuffixXyz123
    /\ card.note_pitches = <<2, 6, 9>>
    /\ Len(card.notes) = 3

\* the spelling policy: sharp names iff the key contains '#' or 'm', or the
\* root contains '#'
C4_Table(key, root) ==
    IF "#" \in Range(key) \/ "m" \in Range(key) \/ "#" \in Range(root)
    THEN PITCH_TO_NOTE_SHARP
    ELSE PITCH_TO_NOTE_FLAT

\* C4: chord-tone names and cell names are both spelled with the sharp table
\* iff the key contains '#' or 'm' or the root contains '#', else with the
\* flat table; so a cell whose pitch class is a chord tone carries the name
\* that pitch class has among the chord-tone names.
C4_Spelling ==
    CardBuilt =>
        LET table == C4_Table(card.key, card.chord.root)
        IN  /\ \A r \in DOMAIN card.fretboard : \A k \in DOMAIN card.fretboard[r][2] :
                  card.fretboard[r][2][k][2]
                     = table[(BASS_TUNINGS[card.string_count][r][2] + k - 1) % 12]
            /\ card.chord.root # <<>> =>
                  \A i \in DOMAIN card.notes : card.notes[i] = table[card.note_pitches[i]]
            /\ \A r \in DOMAIN card.fretboard : \A k \in DOMAIN card.fretboard[r][2] :
                  \A i \in DOMAIN card.note_pitches :
                     CellPitch(card.fretboard[r][2][k]) = card.note_pitches[i]
                        => card.fretboard[r][2][k][2] = card.notes[i]

\* C4 witness: F# in the flat key Bb: the root's '#' forces sharp names, and
\* the chord tone A# is spelled A# in the names and on the G string's fret 3
C4_Witness ==
    /\ CardBuilt
    /\ card.key = <<"B", "b">>
    /\ card.chord.root = <<"F", "#">>
    /\ card.chord.suffix = <<>>
    /\ card.notes = <<<<"F", "#">>, <<"A", "#">>, <<"C", "#">>>>
    /\ card.fretboard[1][2][4] = <<CHORD_NOTE, <<"A", "#">>>>

C5_Major ==
    (0 :> <<"I">>) @@ (2 :> <<"i", "i">>) @@ (4 :> <<"i", "i", "i">>)
    @@ (5 :> <<"I", "V">>) @@ (7 :> <<"V">>) @@ (9 :> <<"v", "i">>)
    @@ (11 :> <<"v", "i", "i", "deg">>)

C5_Minor ==
    (0 :> <<"i">>) @@ (2 :> <<"i", "i", "deg">>) @@ (4 :> <<"I", "I", "I">>)
    @@ (5 :> <<"i", "v">>) @@ (7 :> <<"v">>) @@ (9 :> <<"V", "I">>)
    @@ (11 :> <<"V", "I", "I">>)

Diatonic == {0, 2, 4, 5, 7, 9, 11}

\* d = (pitchClass(chord.root) - pitchClass(keyRoot)) mod 12
SemitonesFromKey(c, key) ==
    (NoteToPitchGet(c.root) - NoteToPitchGet(KeyRoot(key))) % 12

\* the key string contains "m" and neither "maj" nor "dim"
KeyReadsMinor(key) ==
    /\ \E i \in DOMAIN key : key[i] = "m"
    /\ ~\E i \in 1..(Len(key) - 2) : SubSeq(key, i, i + 2) = <<"m", "a", "j">>
    /\ ~\E i \in 1..(Len(key) - 2) : SubSeq(key, i, i + 2) = <<"d", "i", "m">>

\* C5: for a non-empty key and root with d in {0,2,4,5,7,9,11}, the scale
\* degree is the entry for d of the major table (I ii iii IV V vi vii-deg) when
\* the key does not read as minor and of the minor table (i ii-deg III iv v VI
\* VII) when it does; key "C", root "G" gives "V".
C5_DiatonicDegree ==
    (CardBuilt /\ card.key # <<>> /\ card.chord.root # <<>>) =>
        /\ SemitonesFromKey(card.chord, card.key) \in Diatonic =>
              card.scale_degree
                 = IF KeyReadsMinor(card.key)
                   THEN C5_Minor[SemitonesFromKey(card.chord, card.key)]
                   ELSE C5_Major[SemitonesFromKey(card.chord, card.key)]
        /\ (card.key = <<"C">> /\ card.chord.root = <<"G">>) =>
              card.scale_degree = <<"V">>

\* C5 witness: the chord G in the key C is the degree V
C5_Witness ==
    /\ CardBuilt
    /\ card.key = <<"C">>
    /\ card.chord.root = <<"G">>
    /\ card.scale_degree = <<"V">>

\* the decimal digits of a non-diatonic distance
C6_Decimal ==
    (1 :> <<"1">>) @@ (3 :> <<"3">>) @@ (6 :> <<"6">>) @@ (8 :> <<"8">>)
    @@ (10 :> <<"1", "0">>)

\* C6 as stated: a root at a non-diatonic distance d from the key root has
\* exactly the label "?(" + d + ")", with no other characters.
C6_Original ==
    (CardBuilt /\ card.key # <<>> /\ card.chord.root # <<>>
       /\ SemitonesFromKey(card.chord, card.key) \notin Diatonic) =>
        card.scale_degree
           = <<"?", "(">> \o C6_Decimal[SemitonesFromKey(card.chord, card.key)] \o <<")">>

\* C6 amended: a root at a non-diatonic distance d from the key root has
\* exactly the label "? (" + d + ")", with one space between '?' and '('
\* (key "Am", root "C" gives "? (3)").
C6_Amended ==
    (CardBuilt /\ card.key # <<>> /\ card.chord.root # <<>>
       /\ SemitonesFromKey(card.chord, card.key) \notin Diatonic) =>
        /\ card.scale_degree
              = <<"?", " ", "(">> \o C6_Decimal[SemitonesFromKey(card.chord, card.key)]
                \o <<")">>
        /\ (card.key = <<"A", "m">> /\ card.chord.root = <<"C">>) =>
              card.scale_degree = <<"?", " ", "(", "3", ")">>

\* C6 witness: the chord C in the key Am, three semitones above the key root
C6_Witness ==
    /\ CardBuilt
    /\ card.key = <<"A", "m">>
    /\ card.chord.root = <<"C">>
    /\ SemitonesFromKey(card.chord, card.key) = 3
    /\ card.scale_degree = <<"?", " ", "(", "3", ")">>

\* __init__ has run, to its end or to the exception it raised
CardConstructed == pc = "BassCard"

\* C18 as stated: when the key is None or the empty string, building a
\* BassCard does not fail, the scale degree is "?" and the chord tones are
\* the list ["?"].
C18_AbsentKey ==
    (CardConstructed /\ Falsy(card.key)) =>
        /\ card.raised = "None"
        /\ card.scale_degree = <<"?">>
        /\ card.notes = <<<<"?">>>>

\* C19: the scale degree is exactly "?" whenever the key is None or empty or
\* the chord's root is empty, whatever the other input is.
C19_UnknownDegree ==
    (CardConstructed /\ (card.key = None \/ card.key = <<>> \/ card.chord.root = <<>>)) =>
        card.scale_degree = <<"?">>

\* C19 witness: the chord "/E", whose root is empty, in the key C
C19_Witness ==
    /\ CardBuilt
    /\ card.chord.symbol = <<"/", "E">>
    /\ card.chord.root = <<>>
    /\ card.key = <<"C">>
    /\ card.scale_degree = <<"?">>

\* C20: for a chord whose root is empty the chord-tone names are the list
\* ["?"] and the chord-tone pitch classes are empty, so no cell of the card's
\* fretboard is a ChordTone.
C20_EmptyRoot ==
    (CardConstructed /\ card.chord.root = <<>>) =>
        /\ card.notes = <<<<"?">>>>
        /\ card.note_pitches = <<>>
        /\ card.raised = "None" =>
              \A r \in DOMAIN card.fretboard : \A k \in DOMAIN card.fretboard[r][2] :
                  card.fretboard[r][2][k][1] # CHORD_NOTE

\* C20 witness: the card of "/E" on five strings: bass note E marked, no
\* chord tone
C20_Witness ==
    /\ CardBuilt
    /\ card.chord.symbol = <<"/", "E">>
    /\ card.string_count = 5
    /\ card.notes = <<<<"?">>>>
    /\ card.note_pitches = <<>>
    /\ card.fretboard[4][2][1][1] = BASS_NOTE
    /\ card.fretboard[1][2][1][1] = NOT_IN_CHORD

-----------------------------------------------------------------------------
(* Properties of Song.detect_key, under SpecKey *)

KeyDetected == pc = "detect_key"

\* the positions of the chords whose root is not empty
Rooted(chords) == {i \in DOMAIN chords : chords[i].root # <<>>}

OccurrenceCount(chords, r) == Cardinality({i \in DOMAIN chords : chords[i].root = r})

FirstOccurrence(chords, r) ==
    CHOOSE i \in DOMAIN chords :
        chords[i].root = r /\ \A j \in 1..(i - 1) : chords[j].root # r

\* among the roots at the positions I (not empty): the one that occurs most
\* often in the sequence, and of several such the one that occurs first
SelectedRoot(chords, I) ==
    CHOOSE r \in {chords[i].root : i \in I} :
        \A o \in {chords[i].root : i \in I} :
            \/ OccurrenceCount(chords, r) > OccurrenceCount(chords, o)
            \/ /\ OccurrenceCount(chords, r) = OccurrenceCount(chords, o)
               /\ FirstOccurrence(chords, r) <= FirstOccurrence(chords, o)

\* C7 as stated: on a non-empty chord sequence the root value with the
\* highest occurrence count is selected (the result is that root, or that
\* root followed by "m"), the earliest of several.  Sequences whose roots are
\* all empty are left out here: they get the default key.
C7_Original ==
    (KeyDetected /\ song.chords # <<>> /\ Rooted(song.chords) # {}) =>
        detected \in {SelectedRoot(song.chords, DOMAIN song.chords),
                      SelectedRoot(song.chords, DOMAIN song.chords) \o <<"m">>}

\* C7 amended: on a chord sequence with at least one non-empty root, the
\* non-empty root value with the highest occurrence count is selected (roots
\* compared as exact strings; empty roots are not counted), and of several
\* with that count the one whose first occurrence is earliest
\* ([Em, C, B, Em, C, B, Em, C] selects E).
C7_Amended ==
    /\ (KeyDetected /\ Rooted(song.chords) # {}) =>
          detected \in {SelectedRoot(song.chords, Rooted(song.chords)),
                        SelectedRoot(song.chords, Rooted(song.chords)) \o <<"m">>}
    /\ (KeyDetected /\ song.chords = ExampleSong) => detected = <<"E", "m">>

\* C7 witness: the example, where E and C both occur three times and E comes
\* first
C7_Witness ==
    /\ KeyDetected
    /\ song.chords = ExampleSong
    /\ OccurrenceCount(song.chords, <<"E">>) = 3
    /\ OccurrenceCount(song.chords, <<"C">>) = 3
    /\ detected = <<"E", "m">>

\* a suffix that contains "m" and neither "maj" nor "dim"
SuffixReadsMinor(suffix) ==
    /\ \E i \in DOMAIN suffix : suffix[i] = "m"
    /\ ~\E i \in 1..(Len(suffix) - 2) : SubSeq(suffix, i, i + 2) = <<"m", "a", "j">>
    /\ ~\E i \in 1..(Len(suffix) - 2) : SubSeq(suffix, i, i + 2) = <<"d", "i", "m">>

\* C8: the result is the selected root followed by "m" iff some chord whose
\* root is the selected root has a suffix that contains "m" and neither "maj"
\* nor "dim", and is the selected root alone otherwise; chords with other
\* roots do not count.
C8_MinorIff ==
    (KeyDetected /\ Rooted(song.chords) # {}) =>
        LET sel == SelectedRoot(song.chords, Rooted(song.chords))
        IN  detected
               = IF \E i \in DOMAIN song.chords :
                       /\ song.chords[i].root = sel
                       /\ SuffixReadsMinor(song.chords[i].suffix)
                 THEN sel \o <<"m">>
                 ELSE sel

\* C8 witness: C is selected and stays major although the chord Bm7, of
\* another root, has a minor suffix
C8_Witness ==
    /\ KeyDetected
    /\ Len(song.chords) = 3
    /\ song.chords[1].symbol = <<"C">>
    /\ song.chords[2].symbol = <<"B", "m", "7">>
    /\ song.chords[3].symbol = <<"C", "m", "a", "j", "7">>
    /\ detected = <<"C">>

-----------------------------------------------------------------------------
(* Properties of Chord.parse, under SpecParse *)

ChordParsed == pc = "Chord"

\* the text before the first '/', the whole symbol when it has none
BeforeSlash(symbol) ==
    IF \E i \in DOMAIN symbol : symbol[i] = "/"
    THEN SubSeq(symbol, 1, FirstIndex(symbol, "/") - 1)
    ELSE symbol

\* the text after the first '/'
AfterSlash(symbol) == SubSeq(symbol, FirstIndex(symbol, "/") + 1, Len(symbol))

\* the length of a leading "letter A-G, optionally followed by # or b"
LeadLen(s) == IF Len(s) >= 2 /\ s[2] \in {"#", "b"} THEN 2 ELSE 1

ParsedAs(symbol, root, suffix, bass_note) ==
    chord.symbol = symbol =>
        chord.root = root /\ chord.suffix = suffix /\ chord.bass_note = bass_note

\* C9: when the chord part starts with a letter A-G, root is that letter with
\* a following '#' or 'b', case preserved, and the suffix is the rest of the
\* chord part lower-cased and trimmed; "C" -> (C, "", C), "Am7" -> (A, m7, A),
\* "F#7sus4/C#" -> (F#, 7sus4, C#), "B7/D#" -> (B, 7, D#), "BbMaj7" -> (Bb, maj7).
C9_RootAndSuffix ==
    ChordParsed =>
        /\ LET part == BeforeSlash(chord.symbol)
           IN  (part # <<>> /\ part[1] \in {"A", "B", "C", "D", "E", "F", "G"}) =>
                  /\ chord.root = SubSeq(part, 1, LeadLen(part))
                  /\ chord.suffix
                        = Strip(Lower(SubSeq(part, LeadLen(part) + 1, Len(part))))
        /\ ParsedAs(<<"C">>, <<"C">>, <<>>, <<"C">>)
        /\ ParsedAs(<<"A", "m", "7">>, <<"A">>, <<"m", "7">>, <<"A">>)
        /\ ParsedAs(<<"F", "#", "7", "s", "u", "s", "4", "/", "C", "#">>,
                    <<"F", "#">>, <<"7", "s", "u", "s", "4">>, <<"C", "#">>)
        /\ ParsedAs(<<"B", "7", "/", "D", "#">>, <<"B">>, <<"7">>, <<"D", "#">>)
        /\ ParsedAs(<<"B", "b", "M", "a", "j", "7">>,
                    <<"B", "b">>, <<"m", "a", "j", "7">>, <<"B", "b">>)

\* C9 witness: "F#7sus4/C#" parsed
C9_Witness ==
    /\ ChordParsed
    /\ chord.symbol = <<"F", "#", "7", "s", "u", "s", "4", "/", "C", "#">>
    /\ chord.root = <<"F", "#">>
    /\ chord.suffix = <<"7", "s", "u", "s", "4">>
    /\ chord.bass_note = <<"C", "#">>

\* C10 as stated: a symbol with a '/' is split at the first '/' only, and the
\* explicit bass note is everything after the first '/', trimmed.
C10_Original ==
    (ChordParsed /\ "/" \in Range(chord.symbol)
       /\ Strip(AfterSlash(chord.symbol)) # <<>>) =>
        chord.bass_note = Strip(AfterSlash(chord.symbol))

\* C10 amended: a symbol with a '/' is split at every '/': the chord part is
\* everything before the first '/', and the explicit bass note is the text
\* between the first '/' and the next '/' (or the end of the symbol),
\* trimmed; what follows a second '/' is dropped.
C10_Amended ==
    (ChordParsed /\ "/" \in Range(chord.symbol)) =>
        /\ Strip(BeforeSlash(AfterSlash(chord.symbol))) # <<>> =>
              chord.bass_note = Strip(BeforeSlash(AfterSlash(chord.symbol)))
        /\ LET part == Strip(BeforeSlash(chord.symbol))
           IN  /\ part = <<>> => chord.root = <<>> /\ chord.suffix = <<>>
               /\ part # <<>> =>
                     /\ chord.root # <<>>
                     /\ chord.root = SubSeq(part, 1, Len(chord.root))
                     /\ chord.suffix
                           = Strip(Lower(SubSeq(part, Len(chord.root) + 1, Len(part))))

\* C10 witness: "C/E/G" parsed, with the bass note E
C10_Witness ==
    /\ ChordParsed
    /\ chord.symbol = <<"C", "/", "E", "/", "G">>
    /\ chord.root = <<"C">>
    /\ chord.bass_note = <<"E">>

\* the token was accepted by add_chord: it is not empty after trimming
TokenAccepted == chord.symbol # <<>>

\* the explicit bass part: the text between the first '/' and the next '/'
BassPart(symbol) == Strip(BeforeSlash(AfterSlash(symbol)))

\* C11 as stated: for every token add_chord accepts, the bass note of the
\* constructed chord is a non-empty string: the trimmed explicit bass part
\* when a '/' with a non-empty bass part is present, the root otherwise.
C11_Original ==
    (ChordParsed /\ TokenAccepted) =>
        /\ chord.bass_note # None
        /\ chord.bass_note # <<>>
        /\ chord.bass_note
              = IF "/" \in Range(chord.symbol) /\ BassPart(chord.symbol) # <<>>
                THEN BassPart(chord.symbol)
                ELSE chord.root

\* C11 amended: for every token add_chord accepts, the bass note is a string:
\* the trimmed explicit bass part when a '/' with a non-empty bass part is
\* present, the root otherwise (also when the bass part after '/' is empty);
\* it is empty exactly when the bass part and the chord part before the '/'
\* are both empty ("/", "//"), and the root is empty then too.
C11_Amended ==
    (ChordParsed /\ TokenAccepted) =>
        /\ chord.bass_note # None
        /\ chord.bass_note
              = IF "/" \in Range(chord.symbol) /\ BassPart(chord.symbol) # <<>>
                THEN BassPart(chord.symbol)
                ELSE chord.root
        /\ chord.bass_note = <<>>
              <=> /\ "/" \in Range(chord.symbol)
                  /\ BassPart(chord.symbol) = <<>>
                  /\ Strip(BeforeSlash(chord.symbol)) = <<>>
        /\ chord.bass_note = <<>> => chord.root = <<>>

\* C11 witness: "A/" parsed, an empty bass part after the '/', the bass note
\* taken from the root
C11_Witness ==
    /\ ChordParsed
    /\ chord.symbol = <<"A", "/">>
    /\ chord.root = <<"A">>
    /\ chord.bass_note = <<"A">>

\* the letters a root may start with, as the claim names them
LettersAToG == {"A", "B", "C", "D", "E", "F", "G"}

\* C12 as stated: for every token that does not start with a letter A-G the
\* root is the token's first character verbatim and the suffix the
\* lower-cased, trimmed remainder of the token (empty for a token of length
\* at most 1).
C12_Original ==
    (ChordParsed /\ TokenAccepted /\ chord.symbol[1] \notin LettersAToG) =>
        /\ chord.root = SubSeq(chord.symbol, 1, 1)
        /\ chord.suffix = Strip(Lower(SubSeq(chord.symbol, 2, Len(chord.symbol))))

\* C12 amended: for every token whose chord part (the text before the first
\* '/', trimmed; the whole token when it has no '/') does not start with a
\* letter A-G, the root is the chord part's first character verbatim and the
\* suffix the lower-cased, trimmed remainder of the chord part (empty for a
\* chord part of length at most 1); an empty chord part ("/E") gives an empty
\* root and an empty suffix.
C12_Amended ==
    ChordParsed =>
        LET part == Strip(BeforeSlash(chord.symbol))
        IN  /\ part = <<>> => chord.root = <<>> /\ chord.suffix = <<>>
            /\ (part # <<>> /\ part[1] \notin LettersAToG) =>
                  /\ chord.root = SubSeq(part, 1, 1)
                  /\ chord.suffix = Strip(Lower(SubSeq(part, 2, Len(part))))
                  /\ Len(part) <= 1 => chord.suffix = <<>>

\* C12 witness: "hM7" parsed, the root "h" verbatim and the suffix "m7"
C12_Witness ==
    /\ ChordParsed
    /\ chord.symbol = <<"h", "M", "7">>
    /\ chord.root = <<"h">>
    /\ chord.suffix = <<"m", "7">>

-----------------------------------------------------------------------------
(* Properties of analyze_chords on a song text, under SpecAnalyze *)

Analyzed == pc = "analyze_chords"

\* the lines of the song text
TextLines == Split(app.song_text, "\n")

\* the position of the first non-whitespace character of the line when that
\* character is a dot, 0 otherwise
DotAt(line) ==
    IF \E i \in DOMAIN line :
          line[i] = "." /\ \A j \in 1..(i - 1) : line[j] \in Whitespace
    THEN CHOOSE i \in DOMAIN line :
            line[i] = "." /\ \A j \in 1..(i - 1) : line[j] \in Whitespace
    ELSE 0

\* the positions at which a whitespace-separated token of s starts
WordStarts(s) ==
    {i \in DOMAIN s : s[i] \notin Whitespace /\ (i = 1 \/ s[i - 1] \in Whitespace)}

\* the last position of the token that starts at position i
WordEnd(s, i) ==
    CHOOSE j \in i..Len(s) :
        /\ \A k \in i..j : s[k] \notin Whitespace
        /\ j = Len(s) \/ s[j + 1] \in Whitespace

\* the whitespace-separated non-empty tokens of s, left to right
Words(s) ==
    [k \in 1..Cardinality(WordStarts(s)) |->
        LET i == CHOOSE i \in WordStarts(s) :
                    Cardinality({j \in WordStarts(s) : j < i}) = k - 1
        IN  SubSeq(s, i, WordEnd(s, i))]

\* a line that matches ^\[.*\]$
MatchesHeader(line) == Len(line) >= 2 /\ line[1] = "[" /\ line[Len(line)] = "]"

\* line j as the header test reads it: trimmed, or as it stands
HeaderText(lines, j, trimmed) == IF trimmed THEN Strip(lines[j]) ELSE lines[j]

\* the content between the brackets of header line j
BracketContent(lines, j, trimmed) ==
    LET h == HeaderText(lines, j, trimmed)
    IN  IF trimmed THEN Strip(SubSeq(h, 2, Len(h) - 1)) ELSE SubSeq(h, 2, Len(h) - 1)

\* the section of the most recent header before line i, "" if there is none
SectionAt(lines, i, trimmed) ==
    LET H == {j \in 1..(i - 1) : MatchesHeader(HeaderText(lines, j, trimmed))}
    IN  IF H = {} THEN <<>>
        ELSE BracketContent(lines, CHOOSE j \in H : \A h \in H : h <= j, trimmed)

\* the (token, section) pairs line i contributes
LineOccurrences(lines, i, trimmed) ==
    IF DotAt(lines[i]) = 0 THEN <<>>
    ELSE LET W == Words(SubSeq(lines[i], DotAt(lines[i]) + 1, Len(lines[i])))
         IN  [k \in DOMAIN W |-> <<W[k], SectionAt(lines, i, trimmed)>>]

\* the (token, section) pairs of the first n lines, in order of appearance
RECURSIVE Occurrences(_, _, _)
Occurrences(lines, n, trimmed) ==
    IF n = 0 THEN <<>>
    ELSE Occurrences(lines, n - 1, trimmed) \o LineOccurrences(lines, n, trimmed)

\* the (symbol, section) pairs of the song's chords
SongOccurrences == [k \in DOMAIN song.chords |->
                       <<song.chords[k].symbol, song.chords[k].section>>]

\* C14 as stated: the chords of an analyzed text are, in order, the tokens of
\* the lines whose first non-whitespace character is '.', each tagged with
\* the bracket content of the most recent line that matches ^\[.*\]$ ("" if
\* none); all other lines contribute nothing.
C14_Original ==
    Analyzed => SongOccurrences = Occurrences(TextLines, Len(TextLines), FALSE)

\* C14 amended: as C14, with a section header being a line that matches
\* ^\[.*\]$ once its surrounding whitespace is trimmed, and the section name
\* the bracket content trimmed.
C14_Amended ==
    Analyzed => SongOccurrences = Occurrences(TextLines, Len(TextLines), TRUE)

\* C14 witness: the example text analyzed: Em, C, B in section V1, then Am and
\* C/E in section P1, the lyrics line contributing nothing
C14_Witness ==
    /\ Analyzed
    /\ app.song_text = TextHelpExample
    /\ SongOccurrences
         = << <<<<"E", "m">>, <<"V", "1">>>>, <<<<"C">>, <<"V", "1">>>>,
              <<<<"B">>, <<"V", "1">>>>, <<<<"A", "m">>, <<"P", "1">>>>,
              <<<<"C", "/", "E">>, <<"P", "1">>>> >>

-----------------------------------------------------------------------------
(* Properties of the application, under SpecApp *)

\* the chords a fresh analysis of the song text produces: one per
\* (token, section) pair, parsed
FreshChords ==
    LET occ == Occurrences(TextLines, Len(TextLines), TRUE)
    IN  [k \in DOMAIN occ |-> Chord(occ[k][1], occ[k][2])]

\* the card list has one card per chord of the song, in order, each built
\* with the key
OneCardPerChord(cards, chords, key) ==
    /\ Len(cards) = Len(chords)
    /\ \A i \in DOMAIN cards :
          /\ cards[i].raised = "None"
          /\ cards[i].chord = chords[i]
          /\ cards[i].key = key

\* C13 as stated: after analyze on the text T, whatever analyze and load
\* operations came before, the song's chords are those parsed from T, the key
\* is detect_key of those chords, and the card list has one card per chord.
C13_Original ==
    Analyzed =>
        /\ song.chords = FreshChords
        /\ song.key = detect_key(FreshChords)
        /\ OneCardPerChord(app.cards, song.chords, song.key)

\* C13 amended: analyze on the text T leaves the song's chords equal to those
\* parsed from T alone; the key is the key the song had before when that is
\* not empty (set by an earlier analyze or load) and detect_key of the new
\* chords only when the song had no key; the card list is one card per chord,
\* built with that key, when the string-count setting is 4 or 5 or T has no
\* chord, and is left as it was otherwise.
C13_Amended ==
    [][pc' = "analyze_chords" =>
          /\ song'.chords = FreshChords
          /\ song'.key = IF song.key = None \/ song.key = <<>>
                         THEN detect_key(FreshChords)
                         ELSE song.key
          /\ IF app.string_count \in {4, 5} \/ FreshChords = <<>>
             THEN OneCardPerChord(app'.cards, song'.chords, song'.key)
             ELSE app'.cards = app.cards]_vars

\* C13 witness: a text whose chords give the key A analyzed while the song
\* has the key C from before; the cards are built in C
C13_Witness ==
    /\ Analyzed
    /\ app.song_text = TextPaddedHeader
    /\ detect_key(song.chords) = <<"A">>
    /\ song.key = <<"C">>
    /\ Len(app.cards) = 1
    /\ app.cards[1].key = <<"C">>

\* a document with every key save_cards writes
Complete(data) ==
    /\ DOMAIN data = {"song", "settings", "chords"}
    /\ DOMAIN data.song = {"title", "author", "key"}
    /\ DOMAIN data.settings = {"string_count", "display_mode"}
    /\ \A i \in DOMAIN data.chords :
          DOMAIN data.chords[i] = {"symbol", "section", "bass_note"}

\* the scalars of a document, as Python values
Scalar(node) ==
    IF node = <<"null">> THEN None
    ELSE IF node = <<"seq">> THEN ListValue
    ELSE node[2]

Saved == pc = "save_cards" /\ app.error = "None" /\ app.cards # <<>>

Loaded == pc = "load_cards"

\* C15: the document written by save_cards holds the song's title, author
\* and key, the two settings and, in order, symbol, section and bass_note of
\* every card's chord; loading a document of that form makes title, author,
\* key, string_count and display_mode those of the document and the chord
\* list the document's, symbol, section and bass_note exactly, with root and
\* suffix those of parsing the symbol, and bass_note the document's even when
\* it is not what parsing the symbol gives.
C15_RoundTrip ==
    /\ Saved =>
          /\ Complete(file)
          /\ Scalar(file.song.title) = song.title
          /\ Scalar(file.song.author) = song.author
          /\ Scalar(file.song.key) = song.key
          /\ file.settings.string_count = <<"int", app.string_count>>
          /\ file.settings.display_mode = <<"int", app.display_mode>>
          /\ Len(file.chords) = Len(app.cards)
          /\ \A i \in DOMAIN app.cards :
                /\ Scalar(file.chords[i].symbol) = app.cards[i].chord.symbol
                /\ Scalar(file.chords[i].section) = app.cards[i].chord.section
                /\ Scalar(file.chords[i].bass_note) = app.cards[i].chord.bass_note
    /\ (Loaded /\ app.data # Unreadable /\ Complete(app.data)) =>
          /\ song.title = Scalar(app.data.song.title)
          /\ song.author = Scalar(app.data.song.author)
          /\ song.key = Scalar(app.data.song.key)
          /\ <<"int", app.string_count>> = app.data.settings.string_count
          /\ <<"int", app.display_mode>> = app.data.settings.display_mode
          /\ Len(song.chords) = Len(app.data.chords)
          /\ \A i \in DOMAIN song.chords :
                /\ song.chords[i].symbol = Scalar(app.data.chords[i].symbol)
                /\ song.chords[i].section = Scalar(app.data.chords[i].section)
                /\ song.chords[i].bass_note = Scalar(app.data.chords[i].bass_note)
                /\ song.chords[i].root
                      = ParsedRoot(ChordPart(song.chords[i].symbol))
                /\ song.chords[i].suffix
                      = ParsedSuffix(ChordPart(song.chords[i].symbol))

\* C15 witness: the document save_cards wrote has been loaded again, with
\* the chord C over the bass note G, which parsing "C" alone does not give
C15_Witness ==
    /\ Loaded
    /\ file # NoFile
    /\ app.data = file
    /\ app.error = "None"
    /\ song.chords # <<>>
    /\ song.chords[1].symbol = <<"C">>
    /\ song.chords[1].bass_note = <<"G">>
    /\ song.key = <<"G">>
    /\ app.string_count = 5
    /\ app.display_mode = 2

\* C16 as stated: when load_cards fails, the song (title, author, key and
\* chord list), the string-count and display-mode settings and the card list
\* are what they were before the call.
C16_FailedLoad ==
    [][(pc' = "load_cards" /\ app'.error # "None") =>
          /\ song' = song
          /\ app'.string_count = app.string_count
          /\ app'.display_mode = app.display_mode
          /\ app'.cards = app.cards]_vars

\* C17 as stated: after an analyze or a load in which the card of some chord
\* cannot be built while that of another can, every chord whose card can be
\* built has its card in the card list and on display, and only the others
\* are shown as errors.
C17_Isolated ==
    (/\ pc \in {"analyze_chords", "load_cards"}
     /\ \E i \in DOMAIN song.chords :
           Raised(song.chords[i], song.key, app.string_count) = "None"
     /\ \E j \in DOMAIN song.chords :
           Raised(song.chords[j], song.key, app.string_count) # "None") =>
        /\ Len(app.shown.items) = Len(song.chords)
        /\ \A i \in DOMAIN song.chords :
              /\ app.shown.items[i].symbol = song.chords[i].symbol
              /\ Raised(song.chords[i], song.key, app.string_count) = "None"
                    => \E k \in DOMAIN app.cards : app.cards[k].chord = song.chords[i]
              /\ Raised(song.chords[i], song.key, app.string_count) # "None"
                    => app.shown.items[i].error # "None"

-----------------------------------------------------------------------------
(* The default key, under SpecKey *)

\* C21: detect_key returns the default key "C", which reads as a major key,
\* when the chord sequence is empty and also when no chord of the sequence
\* has a non-empty root.
C21_DefaultKey ==
    (KeyDetected /\ Rooted(song.chords) = {}) =>
        /\ detected = <<"C">>
        /\ ~IsMinorKey(detected)

\* C21 witness: key detection on a sequence of chords that all lack a root
\* (the token "/E") has given "C"
C21_Witness ==
    /\ KeyDetected
    /\ song.chords # <<>>
    /\ \A i \in DOMAIN song.chords : song.chords[i].root = <<>>
    /\ detected = <<"C">>

-----------------------------------------------------------------------------
(* Repeated construction, under SpecRebuild *)

\* the chord as the parser made it from its symbol and section
AsParsed(c) == Chord(c.symbol, c.section)

\* the two cards were built from the same chord (symbol and section), key and
\* string count
SameInputs(a, b) ==
    /\ a.chord.symbol = b.chord.symbol
    /\ a.chord.section = b.chord.section
    /\ a.key = b.key
    /\ a.string_count = b.string_count

SameOutputs(a, b) ==
    /\ a.scale_degree = b.scale_degree
    /\ a.notes = b.notes
    /\ a.note_pitches = b.note_pitches
    /\ a.bass_pitch = b.bass_pitch
    /\ a.fretboard = b.fretboard

-----------------------------------------------------------------------------
(* The string-count setting and the cards, under SpecApp *)

\* C23 as stated: in every state of the application each card of the card
\* list has a grid with as many rows as the string-count setting, and each
\* card on display has as many rows as the bass type shown above the cards.
C23_RowsMatchSetting ==
    /\ \A i \in DOMAIN app.cards :
          Len(app.cards[i].fretboard) = app.string_count
    /\ \A i \in DOMAIN app.shown.items :
          app.shown.items[i].error = "None" =>
              Len(app.shown.items[i].rows) = app.shown.meta.string_count

\* an analyze or a load has just returned without an exception
CompletedWithoutError ==
    pc \in {"analyze_chords", "load_cards"} /\ app.error = "None"

\* C24: after an analyze or a load that completes without error the card
\* list is as long as the song's chord list and card i is the card of chord i
\* in the song's key with the string-count setting.
C24_CardsFollowChords ==
    CompletedWithoutError =>
        /\ Len(app.cards) = Len(song.chords)
        /\ \A i \in DOMAIN song.chords :
              /\ app.cards[i].chord = song.chords[i]
              /\ app.cards[i].key = song.key
              /\ app.cards[i].string_count = app.string_count
              /\ SameOutputs(app.cards[i],
                             BassCard(song.chords[i], song.key, app.string_count))

\* C24 witness: a document with the chords C (bass G) and Am7 for 5 strings
\* has been loaded; the two cards follow the two chords
C24_Witness ==
    /\ CompletedWithoutError
    /\ pc = "load_cards"
    /\ Len(song.chords) = 2
    /\ song.chords[1].symbol = <<"C">>
    /\ song.chords[2].symbol = SymbolAm7
    /\ app.string_count = 5
    /\ app.cards[1].chord.symbol = <<"C">>
    /\ app.cards[1].bass_pitch = 7
    /\ app.cards[2].chord.symbol = SymbolAm7
    /\ Len(app.cards[2].fretboard) = 5

-----------------------------------------------------------------------------
(* Coverage of the grid, under SpecCard *)

\* the cells of the card's grid, each <<role, note name>>
Cells(c) ==
    UNION {Range(c.fretboard[r][2]) : r \in DOMAIN c.fretboard}

\* C25: on 4 strings and on 5 strings every pitch class 0..11 occurs in some
\* cell of the frets 0..5; so every grid has a BassNote cell, and every
\* chord-tone pitch class other than the bass pitch class is ChordTone in some
\* cell.
C25_EveryPitchClass ==
    CardBuilt =>
        /\ card.string_count \in {4, 5}
        /\ \A p \in 0..11 : \E cell \in Cells(card) : CellPitch(cell) = p
        /\ \E cell \in Cells(card) : cell[1] = BASS_NOTE
        /\ \A p \in Range(card.note_pitches) \ {card.bass_pitch} :
              \E cell \in Cells(card) : cell[1] = CHORD_NOTE /\ CellPitch(cell) = p

\* C25 witness: the 4-string card of C#m7 over E, whose chord tones 1, 11 and
\* 8 occur only on one string each (A fret 4, G fret 4, G fret 1)
C25_Witness ==
    /\ CardBuilt
    /\ card.string_count = 4
    /\ card.chord.root = <<"C", "#">>
    /\ card.chord.suffix = <<"m", "7">>
    /\ card.bass_pitch = 4
    /\ card.note_pitches = <<1, 4, 8, 11>>
    /\ card.fretboard[3][2][5][1] = CHORD_NOTE
    /\ CellPitch(card.fretboard[3][2][5]) = 1
    /\ Cardinality({cell \in Cells(card) : CellPitch(cell) = 1}) = 1

-----------------------------------------------------------------------------
(* Names that are not in the note table, under SpecCard *)

\* the card of the same chord with the root C
CardOnC == BassCard([card.chord EXCEPT !.root = <<"C">>], card.key, card.string_count)

\* a bass note that is not in the note table gives the bass pitch class 0, and
\* the BassNote cells are the cells of pitch class 0
UnknownBassIsZero ==
    (CardBuilt /\ card.chord.bass_note \notin DOMAIN NOTE_TO_PITCH) =>
        /\ card.bass_pitch = 0
        /\ \A cell \in Cells(card) : cell[1] = BASS_NOTE <=> CellPitch(cell) = 0

\* C26 as stated: a root that is not a key of the note table gives the scale
\* degree and the chord-tone pitch classes of the root C with the same suffix
\* in the same key; a bass note that is not in the table gives pitch class 0.
C26_Original ==
    /\ (CardBuilt /\ card.chord.root \notin DOMAIN NOTE_TO_PITCH) =>
          /\ card.scale_degree = CardOnC.scale_degree
          /\ card.note_pitches = CardOnC.note_pitches
    /\ UnknownBassIsZero

\* C26 amended: the same for a root that is not empty ("Cb", "E#", the
\* fallback root "H"); the empty root of a symbol such as "/E" is not treated
\* as C, it gives the degree "?" and no chord tones (C19, C20).
C26_Amended ==
    /\ (/\ CardBuilt
        /\ card.chord.root \notin DOMAIN NOTE_TO_PITCH
        /\ card.chord.root # <<>>) =>
          /\ card.scale_degree = CardOnC.scale_degree
          /\ card.note_pitches = CardOnC.note_pitches
          /\ card.note_pitches =
                [i \in DOMAIN Formula(card.chord.suffix) |-> Formula(card.chord.suffix)[i] % 12]
    /\ UnknownBassIsZero

\* C26 witness: Cbm7/e in the key of C is the I of the key with the chord tones
\* of Cm7, and its bass "e" marks the cells of pitch class 0 (G string, fret 5)
C26_Witness ==
    /\ CardBuilt
    /\ card.chord.root = <<"C", "b">>
    /\ card.chord.suffix = <<"m", "7">>
    /\ card.chord.bass_note = <<"e">>
    /\ card.key = <<"C">>
    /\ card.scale_degree = <<"I">>
    /\ card.note_pitches = <<0, 3, 7, 10>>
    /\ card.bass_pitch = 0
    /\ card.fretboard[1][2][6][1] = BASS_NOTE

-----------------------------------------------------------------------------
(* String labels, under SpecCard *)

\* C27: in every grid the note name of the open-string cell (fret 0) of each
\* row is that row's string label; each entry of the 4- and 5-string tunings
\* has a label that both spelling tables give to its open pitch mod 12.
C27_OpenStringLabel ==
    /\ CardBuilt =>
          \A r \in DOMAIN card.fretboard :
              card.fretboard[r][2][1][2] = card.fretboard[r][1]
    /\ \A n \in DOMAIN BASS_TUNINGS : \A r \in DOMAIN BASS_TUNINGS[n] :
          /\ PITCH_TO_NOTE_SHARP[BASS_TUNINGS[n][r][2] % 12] = BASS_TUNINGS[n][r][1]
          /\ PITCH_TO_NOTE_FLAT[BASS_TUNINGS[n][r][2] % 12] = BASS_TUNINGS[n][r][1]

\* C27 witness: a 5-string grid in sharp spelling (key F#), whose B row opens
\* on "B" and has "C#" at fret 2
C27_Witness ==
    /\ CardBuilt
    /\ card.string_count = 5
    /\ card.key = <<"F", "#">>
    /\ card.fretboard[5][1] = <<"B">>
    /\ card.fretboard[5][2][1][2] = <<"B">>
    /\ card.fretboard[5][2][3][2] = <<"C", "#">>
    /\ card.fretboard[4][2][1][2] = <<"E">>

-----------------------------------------------------------------------------
(* Display modes, under SpecRender *)

NoteNames == Range(PITCH_TO_NOTE_SHARP) \cup Range(PITCH_TO_NOTE_FLAT)

\* the label of a cell as the user guide gives it: B, X or "." in Standard
\* mode; the note name, or "." for a note not in the chord, in Educational
\* mode
Label(cell, mode) ==
    IF mode = STANDARD
    THEN CASE cell[1] = BASS_NOTE    -> <<"B">>
           [] cell[1] = CHORD_NOTE   -> <<"X">>
           [] cell[1] = NOT_IN_CHORD -> <<".">>
    ELSE CASE cell[1] = NOT_IN_CHORD -> <<".">>
           [] OTHER                  -> cell[2]

\* every card on display (or in the exported HTML) shows each cell of the
\* card with its label in the current display mode
Labelled(rendered) ==
    /\ Len(rendered.items) = Len(app.cards)
    /\ \A i \in DOMAIN app.cards :
          /\ rendered.items[i].error = "None"
          /\ \A r \in DOMAIN app.cards[i].fretboard :
                \A k \in DOMAIN app.cards[i].fretboard[r][2] :
                    rendered.items[i].rows[r][2][k] =
                        Label(app.cards[i].fretboard[r][2][k], app.display_mode)

\* the two renderers give the same text for every role, note name and mode
SameText ==
    \A note_type \in {BASS_NOTE, CHORD_NOTE, NOT_IN_CHORD}, note_name \in NoteNames,
       mode \in {STANDARD, EDUCATIONAL} :
        /\ GetMarkerText(note_type, note_name, mode) = Label(<<note_type, note_name>>, mode)
        /\ GetHtmlMarkerText(note_type, note_name, mode) =
              GetMarkerText(note_type, note_name, mode)

\* C28: every handler leaves the cards on display labelled B / X / "." in
\* Standard mode and by note name (or ".") in Educational mode; an HTML
\* export shows the same labels; the two renderers agree on every role, note
\* name and mode; and switching the display mode leaves the cards and the
\* song as they were.
C28_DisplayMode ==
    [][/\ SameText
       /\ Labelled(app.shown)'
       /\ (pc' = "export_html" /\ app'.cards # <<>> /\ app'.error = "None") =>
              /\ Labelled(app.html)'
              /\ app'.html.items = app'.shown.items
       /\ pc' = "display_cards" => (app'.cards = app.cards /\ song' = song)]_vars

\* C28 witness: the cards of "Am7 C#/E Bb" were switched to Educational mode
\* and exported; the open G string of Am7 (a chord tone) reads "G" on screen
\* and in the HTML, its fret 1 ".", its fret 2 (the bass) "A"
C28_Witness ==
    /\ pc = "export_html"
    /\ app.error = "None"
    /\ app.display_mode = EDUCATIONAL
    /\ Len(app.cards) = 3
    /\ app.cards[1].chord.symbol = SymbolAm7
    /\ app.cards[1].fretboard[1][2][1] = <<CHORD_NOTE, <<"G">>>>
    /\ app.shown.items[1].rows[1][2] =
          <<<<"G">>, <<".">>, <<"A">>, <<".">>, <<".">>, <<"C">>>>
    /\ app.html.items[1].rows[1][2] = app.shown.items[1].rows[1][2]

=============================================================================
